---- MODULE Spec2Model ----
(***************************************************************************)
(* chartup: the check orchestrator (internal/checker), the result cache    *)
(* (internal/cache), the registry client (internal/registry) and the main  *)
(* program that drives them: New, Load, Scan, CheckAll, Save.              *)
(***************************************************************************)
EXTENDS Integers, Sequences, FiniteSets, TLC

\* ------------------------------------------------------------------------
\* Bounds of the model
\* ------------------------------------------------------------------------
MaxImages == 2
MaxCharts == 1
MaxTime == 2
MaxRuns == 2
MaxTwiceRefs == 2
MaxSets == 2
MaxFileRefs == 1
MaxTags == 3
MaxLine == 2
MaxDockerfileLines == 3

\* ------------------------------------------------------------------------
\* Constants of the program
\* ------------------------------------------------------------------------
\* main: cache.New(".chartup-cache.json", 1*time.Hour, *refresh); the clock of
\* the model counts hours.
TTL == 1

StatusUnknown == "UNKNOWN"
StatusUpToDate == "OK"
StatusUpdateAvailable == "UPDATE"
StatusSkipped == "SKIPPED"
StatusError == "ERROR"

\* Error values: the sentinel registry.ErrRateLimit, errors made with
\* fmt.Errorf, and nil. errors.Is tells the sentinel by identity (kind),
\* Error() gives the message.
ErrRateLimit == [kind |-> "ErrRateLimit", msg |-> "rate limit exceeded"]
Errorf(msg) == [kind |-> "error", msg |-> msg]
NoError == [kind |-> "nil", msg |-> ""]
IsErrRateLimit(e) == e.kind = "ErrRateLimit"

\* ------------------------------------------------------------------------
\* Input vocabulary: the references a scan can produce
\* ------------------------------------------------------------------------
ImageUniverse ==
    { [Registry |-> "docker.io", Repository |-> "nginx", Tag |-> "1.0",
       Skipped |-> FALSE, Line |-> 1],
      [Registry |-> "docker.io", Repository |-> "nginx", Tag |-> "",
       Skipped |-> FALSE, Line |-> 2],
      [Registry |-> "ghcr.io", Repository |-> "org/app", Tag |-> "2.0",
       Skipped |-> FALSE, Line |-> 4],
      [Registry |-> "docker.io", Repository |-> "thinkportgmbh/workshops",
       Tag |-> "jupyter", Skipped |-> TRUE, Line |-> 5] }

ChartUniverse ==
    { [Name |-> "trino", Version |-> "1.0", Upstream |-> "trinodb", Line |-> 0],
      [Name |-> "local", Version |-> "1.0", Upstream |-> "", Line |-> 0] }

SeqsUpTo(S, n) == UNION { [1..k -> S] : k \in 0..n }

\* Tag lists a registry can answer with, and chart versions ArtifactHub can.
TagLists == { <<>>, <<"1.0">>, <<"1.0", "2.0">>, <<"1.0.0", "v2.0">> }
ChartVersions == { "", "1.0" }

\* ------------------------------------------------------------------------
\* State
\* ------------------------------------------------------------------------
VARIABLES
    scan,          \* scanner.ScanResults of the scanned directory
    file,          \* the cache file on disk
    cache,         \* the cache.Cache instance of the running process
    now,           \* the wall clock
    pc,            \* position of main
    i,             \* loop index inside CheckAll
    results,       \* checker.Results under construction
    rateLimitHit,  \* CheckAll's local halt flag
    err,           \* the error CheckAll returned
    run,           \* number of the current program run
    calls,         \* log of Cache and Resolver calls of the current CheckAll
    prev,          \* what is remembered of the previous run (SpecTwice)
    input,         \* the arguments of a function that is called on its own
    output         \* what that function returned

vars == <<scan, file, cache, now, pc, i, results, rateLimitHit, err, run,
          calls, prev, input, output>>

\* ------------------------------------------------------------------------
\* package strings, on strings given as the sequence of their bytes
\* ------------------------------------------------------------------------
IsSpace(c) == c \in {" ", "\t"}

TrimSpace(cs) ==
    LET kept == { k \in 1..Len(cs) : ~IsSpace(cs[k]) }
    IN  IF kept = {} THEN <<>>
        ELSE SubSeq(cs, CHOOSE k \in kept : \A j \in kept : k <= j,
                        CHOOSE k \in kept : \A j \in kept : j <= k)

HasPrefix(cs, prefix) ==
    Len(cs) >= Len(prefix) /\ SubSeq(cs, 1, Len(prefix)) = prefix

\* strings.Index, counted from 1; 0 when sub does not occur
Index(cs, sub) ==
    LET at == { k \in 1..(Len(cs) - Len(sub) + 1) :
                  SubSeq(cs, k, k + Len(sub) - 1) = sub }
    IN  IF at = {} THEN 0 ELSE CHOOSE k \in at : \A j \in at : k <= j

Contains(cs, sub) == Index(cs, sub) # 0

\* strings.SplitN(cs, sep, 2)
SplitN2(cs, sep) ==
    IF Index(cs, sep) = 0 THEN <<cs>>
    ELSE << SubSeq(cs, 1, Index(cs, sep) - 1),
            SubSeq(cs, Index(cs, sep) + Len(sep), Len(cs)) >>

\* ------------------------------------------------------------------------
\* internal/registry: version comparator
\* ------------------------------------------------------------------------
\* The bytes of the strings of the model's vocabulary.
Chars(str) ==
    CASE str = "" -> <<>>
      [] str = "1.0" -> <<"1", ".", "0">>
      [] str = "2.0" -> <<"2", ".", "0">>
      [] str = "10.0" -> <<"1", "0", ".", "0">>
      [] str = "1.0.0" -> <<"1", ".", "0", ".", "0">>
      [] str = "v1.0" -> <<"v", "1", ".", "0">>
      [] str = "v2.0" -> <<"v", "2", ".", "0">>
      [] str = "2.1-rc1" -> <<"2", ".", "1", "-", "r", "c", "1">>
      [] str = "2.0-rc1" -> <<"2", ".", "0", "-", "r", "c", "1">>
      [] str = "latest" -> <<"l", "a", "t", "e", "s", "t">>
      [] str = "jupyter" -> <<"j", "u", "p", "y", "t", "e", "r">>
      [] str = "docker.io" -> <<"d", "o", "c", "k", "e", "r", ".", "i", "o">>
      [] str = "quay.io" -> <<"q", "u", "a", "y", ".", "i", "o">>
      [] str = "ghcr.io" -> <<"g", "h", "c", "r", ".", "i", "o">>
      [] str = "gcr.io" -> <<"g", "c", "r", ".", "i", "o">>
      [] str = "registry.k8s.io" ->
             <<"r", "e", "g", "i", "s", "t", "r", "y", ".", "k", "8", "s",
               ".", "i", "o">>
      [] str = "registry.example.com" ->
             <<"r", "e", "g", "i", "s", "t", "r", "y", ".", "e", "x", "a",
               "m", "p", "l", "e", ".", "c", "o", "m">>

Digits == {"0", "1", "2", "3", "4", "5", "6", "7", "8", "9"}
DigitValue(c) ==
    CASE c = "0" -> 0 [] c = "1" -> 1 [] c = "2" -> 2 [] c = "3" -> 3
      [] c = "4" -> 4 [] c = "5" -> 5 [] c = "6" -> 6 [] c = "7" -> 7
      [] c = "8" -> 8 [] c = "9" -> 9

\* \d+ is greedy: the index of the last digit of the run that starts at k,
\* or k - 1 when there is no digit at k.
RECURSIVE DigitRunEnd(_, _)
DigitRunEnd(cs, k) ==
    IF k <= Len(cs) /\ cs[k] \in Digits THEN DigitRunEnd(cs, k + 1) ELSE k - 1

\* fmt.Sscanf(group, "%d", &num) on the digits cs[a..b]
RECURSIVE Atoi(_, _, _)
Atoi(cs, a, b) ==
    IF a > b THEN 0 ELSE Atoi(cs, a, b - 1) * 10 + DigitValue(cs[b])

\* An optional group (?:\.(\d+))? tried after index e: the index of its last
\* digit, or e when the group does not match there.
OptionalGroupEnd(cs, e) ==
    IF e + 1 <= Len(cs) /\ cs[e + 1] = "." /\ DigitRunEnd(cs, e + 2) >= e + 2
    THEN DigitRunEnd(cs, e + 2)
    ELSE e

\* The numeric groups of a match whose groups end at e1, e2 and e3, as
\* compareSemver reads them: an absent group is 0.
Submatches(cs, s1, e1, e2, e3) ==
    << Atoi(cs, s1, e1),
       IF e2 > e1 THEN Atoi(cs, e1 + 2, e2) ELSE 0,
       IF e3 > e2 THEN Atoi(cs, e2 + 2, e3) ELSE 0 >>

MatchFromThird(cs, s1, e1, e2) ==
    Submatches(cs, s1, e1, e2,
               IF e2 > e1 THEN OptionalGroupEnd(cs, e2) ELSE e2)

MatchFromSecond(cs, s1, e1) ==
    IF e1 < s1 THEN <<>>
    ELSE MatchFromThird(cs, s1, e1, OptionalGroupEnd(cs, e1))

MatchFromFirst(cs, s1) == MatchFromSecond(cs, s1, DigitRunEnd(cs, s1))

\* semverRegex.FindStringSubmatch: ^v?(\d+)(?:\.(\d+))?(?:\.(\d+))? matched
\* at the start of cs, whatever follows: <<>> when there is no match.
FindStringSubmatch(cs) ==
    MatchFromFirst(cs, IF Len(cs) >= 1 /\ cs[1] = "v" THEN 2 ELSE 1)

semverRegex(tag) == FindStringSubmatch(Chars(tag))

MatchString(tag) == semverRegex(tag) # <<>>

\* strings.HasPrefix(tag, "v") and strings.Contains(tag, "-")
HasVPrefix(tag) == Len(Chars(tag)) >= 1 /\ Chars(tag)[1] = "v"
ContainsHyphen(tag) == \E k \in 1..Len(Chars(tag)) : Chars(tag)[k] = "-"

\* compareSemver on the groups aParts and bParts of its two arguments
compareParts(aParts, bParts) ==
    IF aParts[1] # bParts[1] THEN aParts[1] - bParts[1]
    ELSE IF aParts[2] # bParts[2] THEN aParts[2] - bParts[2]
    ELSE aParts[3] - bParts[3]

compareSemver(a, b) == compareParts(semverRegex(a), semverRegex(b))

isSimpleVersion(tag) == MatchString(tag) /\ ~ContainsHyphen(tag)

\* Variant of filterSemverTags that keeps the tags with a hyphen.
filterSemverTags_KeepsHyphen(tags) ==
    SelectSeq(tags, LAMBDA t : MatchString(t))

filterSemverTags(tags) ==
    SelectSeq(tags, LAMBDA t : MatchString(t)
                               /\ (~ContainsHyphen(t) \/ isSimpleVersion(t)))

\* sort.Sort(sort.Reverse(semverSlice(s))) followed by s[0]: an element that
\* no other element exceeds.  For a list of at most 12 elements sort.Sort is
\* an insertion sort, which keeps equal elements in list order: the first
\* such element.
SortedFirst(s) ==
    LET best == { j \in 1..Len(s) :
                    \A k \in 1..Len(s) : compareSemver(s[k], s[j]) <= 0 }
    IN  s[CHOOSE j \in best : \A k \in best : j <= k]

\* Variant of findLatestTag that falls back to the current tag where the
\* function falls back to the first tag.
findLatestTag_FallbackCurrent(tags, currentTag) ==
    IF Len(tags) = 0 THEN ""
    ELSE IF ~MatchString(currentTag)
    THEN LET semverTags == filterSemverTags(tags)
         IN  IF Len(semverTags) > 0 THEN SortedFirst(semverTags)
             ELSE currentTag
    ELSE LET matchingTags ==
                 SelectSeq(tags, LAMBDA t : MatchString(t)
                                   /\ (HasVPrefix(t) = HasVPrefix(currentTag)))
         IN  IF Len(matchingTags) = 0 THEN currentTag
             ELSE SortedFirst(matchingTags)

\* Variant of findLatestTag that does not compare the v prefixes.
findLatestTag_AnyStyle(tags, currentTag) ==
    IF Len(tags) = 0 THEN ""
    ELSE IF ~MatchString(currentTag)
    THEN LET semverTags == filterSemverTags(tags)
         IN  IF Len(semverTags) > 0 THEN SortedFirst(semverTags) ELSE tags[1]
    ELSE LET matchingTags == SelectSeq(tags, LAMBDA t : MatchString(t))
         IN  IF Len(matchingTags) = 0 THEN currentTag
             ELSE SortedFirst(matchingTags)

findLatestTag(tags, currentTag) ==
    IF Len(tags) = 0 THEN ""
    ELSE IF ~MatchString(currentTag)
    THEN LET semverTags == filterSemverTags(tags)
         IN  IF Len(semverTags) > 0 THEN SortedFirst(semverTags) ELSE tags[1]
    ELSE LET matchingTags ==
                 SelectSeq(tags, LAMBDA t : MatchString(t)
                                   /\ (HasVPrefix(t) = HasVPrefix(currentTag)))
         IN  IF Len(matchingTags) = 0 THEN currentTag
             ELSE SortedFirst(matchingTags)

\* The slice findLatestTag sorts: semverTags for a current tag that does not
\* match the version pattern, matchingTags for one that does.
SortedTags(tags, currentTag) ==
    IF ~MatchString(currentTag) THEN filterSemverTags(tags)
    ELSE SelectSeq(tags, LAMBDA t : MatchString(t)
                           /\ (HasVPrefix(t) = HasVPrefix(currentTag)))

\* sort.Sort sorts a slice of at most InsertionSortMax elements by insertion,
\* which keeps equal elements in list order; for a longer slice "the sort is
\* not guaranteed to be stable": any element that no other exceeds can come
\* first.
InsertionSortMax == 12

SortedFirstOutcomes(s) ==
    IF Len(s) <= InsertionSortMax THEN {SortedFirst(s)}
    ELSE { s[j] : j \in { m \in 1..Len(s) :
                            \A k \in 1..Len(s) :
                                compareSemver(s[k], s[m]) <= 0 } }

\* What findLatestTag can return
findLatestTagOutcomes(tags, currentTag) ==
    IF Len(SortedTags(tags, currentTag)) <= InsertionSortMax
    THEN {findLatestTag(tags, currentTag)}
    ELSE SortedFirstOutcomes(SortedTags(tags, currentTag))

\* ------------------------------------------------------------------------
\* internal/registry: the upstream resolver
\* ------------------------------------------------------------------------
\* What one HTTP exchange with a registry can answer.
RegistryResponses ==
    { [status |-> 429, tags |-> <<>>], [status |-> 500, tags |-> <<>>] }
    \cup { [status |-> 200, tags |-> t] : t \in TagLists }

\* getDockerHubTags / getQuayTags: one tag-list call. api is the name the
\* error message carries.
getTags(api, currentTag, resp) ==
    IF resp.status = 429
    THEN [err |-> ErrRateLimit, Latest |-> "", AllTags |-> <<>>, http |-> 1]
    ELSE IF resp.status # 200
    THEN [err |-> Errorf(api \o " API returned status 500"), Latest |-> "",
          AllTags |-> <<>>, http |-> 1]
    ELSE [err |-> NoError, Latest |-> findLatestTag(resp.tags, currentTag),
          AllTags |-> resp.tags, http |-> 1]

GetLatestTag(registry, repository, currentTag, resp) ==
    IF registry = "docker.io" \/ registry = ""
    THEN getTags("Docker Hub", currentTag, resp)
    ELSE IF Contains(Chars(registry), Chars("quay.io"))
    THEN getTags("Quay.io", currentTag, resp)
    ELSE [err |-> Errorf("unsupported registry: " \o registry), Latest |-> "",
          AllTags |-> <<>>, http |-> 0]

\* What the two ArtifactHub exchanges (direct lookup, then search) can answer:
\* the status and the version of the direct answer, the status and the
\* packages of the search answer.
ChartResponses ==
    { [direct |-> 429, version |-> "", search |-> 0, packages |-> <<>>] }
    \cup { [direct |-> 200, version |-> v, search |-> 0, packages |-> <<>>] :
             v \in ChartVersions }
    \cup { [direct |-> 404, version |-> "", search |-> s, packages |-> <<>>] :
             s \in {429, 500, 200} }
    \cup { [direct |-> 404, version |-> "", search |-> 200,
            packages |-> << [Name |-> "trino", Repository |-> "trino",
                             Version |-> v] >>] :
             v \in ChartVersions }

mapUpstreamToRepo(upstream) ==
    IF upstream = "trinodb" THEN "trino" ELSE upstream

\* The packages of a search answer that the first loop of searchChart
\* accepts, and those the second loop accepts.
FromRepo(packages, chartName, repoName) ==
    { k \in 1..Len(packages) :
        packages[k].Name = chartName /\ packages[k].Repository = repoName }
Named(packages, chartName) ==
    { k \in 1..Len(packages) : packages[k].Name = chartName }
FirstOf(packages, ks) ==
    packages[CHOOSE k \in ks : \A j \in ks : k <= j].Version

\* Variant of searchChart without the loop that prefers the mapped repository.
searchChart_AnyRepository(chartName, upstream, resp) ==
    IF resp.search = 429
    THEN [err |-> ErrRateLimit, LatestVersion |-> "", http |-> 2]
    ELSE IF resp.search # 200
    THEN [err |-> Errorf("ArtifactHub API returned status 500"),
          LatestVersion |-> "", http |-> 2]
    ELSE IF Named(resp.packages, chartName) # {}
    THEN [err |-> NoError,
          LatestVersion |-> FirstOf(resp.packages,
                                    Named(resp.packages, chartName)),
          http |-> 2]
    ELSE [err |-> Errorf("chart " \o chartName \o " not found on ArtifactHub"),
          LatestVersion |-> "", http |-> 2]

searchChart(chartName, upstream, resp) ==
    IF resp.search = 429
    THEN [err |-> ErrRateLimit, LatestVersion |-> "", http |-> 2]
    ELSE IF resp.search # 200
    THEN [err |-> Errorf("ArtifactHub API returned status 500"),
          LatestVersion |-> "", http |-> 2]
    ELSE IF FromRepo(resp.packages, chartName,
                     mapUpstreamToRepo(upstream)) # {}
    THEN [err |-> NoError,
          LatestVersion |->
              FirstOf(resp.packages,
                      FromRepo(resp.packages, chartName,
                               mapUpstreamToRepo(upstream))),
          http |-> 2]
    ELSE IF Named(resp.packages, chartName) # {}
    THEN [err |-> NoError,
          LatestVersion |-> FirstOf(resp.packages,
                                    Named(resp.packages, chartName)),
          http |-> 2]
    ELSE [err |-> Errorf("chart " \o chartName \o " not found on ArtifactHub"),
          LatestVersion |-> "", http |-> 2]

GetChartVersion(chartName, upstream, resp) ==
    IF upstream = ""
    THEN [err |-> Errorf("no upstream configured for chart " \o chartName),
          LatestVersion |-> "", http |-> 0]
    ELSE IF resp.direct = 429
    THEN [err |-> ErrRateLimit, LatestVersion |-> "", http |-> 1]
    ELSE IF resp.direct = 200
    THEN [err |-> NoError, LatestVersion |-> resp.version, http |-> 1]
    ELSE searchChart(chartName, upstream, resp)

\* ------------------------------------------------------------------------
\* internal/cache
\* ------------------------------------------------------------------------
EmptyMap == [k \in {} |-> {}]

MapPut(m, key, entry) ==
    [k \in DOMAIN m \cup {key} |-> IF k = key THEN entry ELSE m[k]]

New(ttl, skipReads) ==
    [ttl |-> ttl, skipReads |-> skipReads,
     Images |-> EmptyMap, Charts |-> EmptyMap]

NoFile == [kind |-> "missing", Images |-> EmptyMap, Charts |-> EmptyMap]

\* json.Unmarshal into the existing maps: the keys of the file are stored
\* over whatever the maps hold.
MapMerge(m, loaded) ==
    [k \in DOMAIN m \cup DOMAIN loaded |->
        IF k \in DOMAIN loaded THEN loaded[k] ELSE m[k]]

\* Variant of Load that never reads the file.
Load_IgnoresFile(c, f) == c

\* The cache file is one of: "missing"; "json", written by Save; "syntax",
\* not valid JSON (os.ReadFile succeeds, json.Unmarshal rejects the whole
\* input before it stores anything); "type", valid JSON in which some value
\* has the wrong type (json.Unmarshal skips that value, stores every other
\* one and reports the first such error).  Images and Charts are the
\* well-typed entries the text of the file holds.
Load(c, f) ==
    IF f.kind \in {"missing", "syntax"} THEN c
    ELSE [c EXCEPT !.Images = MapMerge(c.Images, f.Images),
                   !.Charts = MapMerge(c.Charts, f.Charts)]

\* the error Load returns
LoadError(f) ==
    CASE f.kind = "syntax" -> Errorf("unexpected end of JSON input")
      [] f.kind = "type" -> Errorf("json: cannot unmarshal number into Go struct field CacheEntry.images.latest of type string")
      [] OTHER -> NoError

Save(c) == [kind |-> "json", Images |-> c.Images, Charts |-> c.Charts]

\* Variant of Expired that expires an entry when its age reaches the TTL.
Expired_AtTTL(entry, ttl, t) == t - entry.CheckedAt >= ttl

\* Variant of Expired with the subtraction the wrong way round.
Expired_Reversed(entry, ttl, t) == entry.CheckedAt - t > ttl

\* time.Since(entry.CheckedAt) > c.ttl
Expired(entry, ttl, t) == t - entry.CheckedAt > ttl

NotFound == [Latest |-> "", AllTags |-> <<>>, ok |-> FALSE]

\* Variant of GetImage without the test of skipReads.
GetImage_IgnoresSkipReads(c, key, t) ==
    IF key \notin DOMAIN c.Images THEN NotFound
    ELSE IF Expired(c.Images[key], c.ttl, t) THEN NotFound
    ELSE [Latest |-> c.Images[key].Latest,
          AllTags |-> c.Images[key].AllTags, ok |-> TRUE]

GetImage(c, key, t) ==
    IF c.skipReads THEN NotFound
    ELSE IF key \notin DOMAIN c.Images THEN NotFound
    ELSE IF Expired(c.Images[key], c.ttl, t) THEN NotFound
    ELSE [Latest |-> c.Images[key].Latest,
          AllTags |-> c.Images[key].AllTags, ok |-> TRUE]

\* Variant of SetImage that stores nothing.
SetImage_Drops(c, key, latest, allTags, t) == c

\* Variant of SetImage that keeps the tag list of the entry it replaces when
\* it is given none.
SetImage_KeepsTags(c, key, latest, allTags, t) ==
    [c EXCEPT !.Images = MapPut(c.Images, key,
        [Latest |-> latest, CheckedAt |-> t,
         AllTags |-> IF allTags = <<>> /\ key \in DOMAIN c.Images
                     THEN c.Images[key].AllTags ELSE allTags])]

SetImage(c, key, latest, allTags, t) ==
    [c EXCEPT !.Images = MapPut(c.Images, key,
        [Latest |-> latest, CheckedAt |-> t, AllTags |-> allTags])]

GetChart(c, key, t) ==
    IF c.skipReads THEN NotFound
    ELSE IF key \notin DOMAIN c.Charts THEN NotFound
    ELSE IF Expired(c.Charts[key], c.ttl, t) THEN NotFound
    ELSE [Latest |-> c.Charts[key].Latest, AllTags |-> <<>>, ok |-> TRUE]

\* Variant of SetChart that empties the image mapping on the way.
SetChart_ClearsImages(c, key, latest, t) ==
    [c EXCEPT !.Images = EmptyMap,
              !.Charts = MapPut(c.Charts, key,
                  [Latest |-> latest, CheckedAt |-> t, AllTags |-> <<>>])]

SetChart(c, key, latest, t) ==
    [c EXCEPT !.Charts = MapPut(c.Charts, key,
        [Latest |-> latest, CheckedAt |-> t, AllTags |-> <<>>])]

\* ------------------------------------------------------------------------
\* internal/scanner: parseImageString
\* ------------------------------------------------------------------------
Str_latest == <<"l", "a", "t", "e", "s", "t">>
Str_docker_io == <<"d", "o", "c", "k", "e", "r", ".", "i", "o">>
Str_thinkportgmbh ==
    <<"t", "h", "i", "n", "k", "p", "o", "r", "t", "g", "m", "b", "h">>

\* parseImageString returned nil
Nil == [nil |-> TRUE]

\* Variant of parseImageString that looks for the excluded organization in
\* the whole reference.
parseImageString_SkipsOnFullImage(imageStr, path, line) ==
    LET str == TrimSpace(imageStr)
        parts == SplitN2(str, <<"/">>)
        hasRegistry == /\ Len(parts) = 2
                       /\ \/ Contains(parts[1], <<".">>)
                          \/ Contains(parts[1], <<":">>)
        rest == IF hasRegistry THEN parts[2] ELSE str
        tagParts == SplitN2(rest, <<":">>)
    IN  IF str = <<>> \/ str = Str_latest THEN Nil
        ELSE IF HasPrefix(str, <<"/">>) \/ HasPrefix(str, <<".">>) THEN Nil
        ELSE IF ~Contains(str, <<"/">>) /\ ~Contains(str, <<":">>) THEN Nil
        ELSE [nil |-> FALSE,
              FullImage |-> str,
              Path |-> path,
              Line |-> line,
              Registry |-> IF hasRegistry THEN parts[1] ELSE Str_docker_io,
              Repository |-> tagParts[1],
              Tag |-> IF Len(tagParts) = 2 THEN tagParts[2] ELSE Str_latest,
              Skipped |-> Contains(str, Str_thinkportgmbh)]

\* Variant of parseImageString that takes a first segment for a registry
\* host only when it holds a ".".
parseImageString_HostNeedsDot(imageStr, path, line) ==
    LET str == TrimSpace(imageStr)
        parts == SplitN2(str, <<"/">>)
        hasRegistry == Len(parts) = 2 /\ Contains(parts[1], <<".">>)
        rest == IF hasRegistry THEN parts[2] ELSE str
        tagParts == SplitN2(rest, <<":">>)
    IN  IF str = <<>> \/ str = Str_latest THEN Nil
        ELSE IF HasPrefix(str, <<"/">>) \/ HasPrefix(str, <<".">>) THEN Nil
        ELSE IF ~Contains(str, <<"/">>) /\ ~Contains(str, <<":">>) THEN Nil
        ELSE [nil |-> FALSE,
              FullImage |-> str,
              Path |-> path,
              Line |-> line,
              Registry |-> IF hasRegistry THEN parts[1] ELSE Str_docker_io,
              Repository |-> tagParts[1],
              Tag |-> IF Len(tagParts) = 2 THEN tagParts[2] ELSE Str_latest,
              Skipped |-> Contains(tagParts[1], Str_thinkportgmbh)]

parseImageString(imageStr, path, line) ==
    LET str == TrimSpace(imageStr)
        parts == SplitN2(str, <<"/">>)
        hasRegistry == /\ Len(parts) = 2
                       /\ \/ Contains(parts[1], <<".">>)
                          \/ Contains(parts[1], <<":">>)
        rest == IF hasRegistry THEN parts[2] ELSE str
        tagParts == SplitN2(rest, <<":">>)
    IN  IF str = <<>> \/ str = Str_latest THEN Nil
        ELSE IF HasPrefix(str, <<"/">>) \/ HasPrefix(str, <<".">>) THEN Nil
        ELSE IF ~Contains(str, <<"/">>) /\ ~Contains(str, <<":">>) THEN Nil
        ELSE [nil |-> FALSE,
              FullImage |-> str,
              Path |-> path,
              Line |-> line,
              Registry |-> IF hasRegistry THEN parts[1] ELSE Str_docker_io,
              Repository |-> tagParts[1],
              Tag |-> IF Len(tagParts) = 2 THEN tagParts[2] ELSE Str_latest,
              Skipped |-> Contains(tagParts[1], Str_thinkportgmbh)]

\* ------------------------------------------------------------------------
\* internal/scanner: parseDockerfile
\* ------------------------------------------------------------------------
\* \w of the regular expressions
WordChars ==
    {
      "a", "b", "c", "d", "e", "f", "g", "h", "i", "j", "k", "l", "m", "n",
      "o", "p", "q", "r", "s", "t", "u", "v", "w", "x", "y", "z", "A", "B",
      "C", "D", "E", "F", "G", "H", "I", "J", "K", "L", "M", "N", "O", "P",
      "Q", "R", "S", "T", "U", "V", "W", "X", "Y", "Z", "0", "1", "2", "3",
      "4", "5", "6", "7", "8", "9", "_"
    }

\* strings.ToLower
LowerOf(c) ==
    CASE
         c = "A" -> "a"
      [] c = "B" -> "b"
      [] c = "C" -> "c"
      [] c = "D" -> "d"
      [] c = "E" -> "e"
      [] c = "F" -> "f"
      [] c = "G" -> "g"
      [] c = "H" -> "h"
      [] c = "I" -> "i"
      [] c = "J" -> "j"
      [] c = "K" -> "k"
      [] c = "L" -> "l"
      [] c = "M" -> "m"
      [] c = "N" -> "n"
      [] c = "O" -> "o"
      [] c = "P" -> "p"
      [] c = "Q" -> "q"
      [] c = "R" -> "r"
      [] c = "S" -> "s"
      [] c = "T" -> "t"
      [] c = "U" -> "u"
      [] c = "V" -> "v"
      [] c = "W" -> "w"
      [] c = "X" -> "x"
      [] c = "Y" -> "y"
      [] c = "Z" -> "z"
      [] OTHER -> c
ToLower(cs) == [k \in 1..Len(cs) |-> LowerOf(cs[k])]

\* The index of the last element of the longest run of elements of set that
\* starts at k, or k - 1 when cs[k] is not in set.
RECURSIVE RunEnd(_, _, _)
RunEnd(cs, k, set) ==
    IF k <= Len(cs) /\ cs[k] \in set THEN RunEnd(cs, k + 1, set) ELSE k - 1
\* The same for a run of elements that are not in set.
RECURSIVE RunEndNot(_, _, _)
RunEndNot(cs, k, set) ==
    IF k <= Len(cs) /\ cs[k] \notin set THEN RunEndNot(cs, k + 1, set)
    ELSE k - 1

Spaces == {" ", "\t"}
Str_ARG == <<"A", "R", "G">>
Str_FROM == <<"F", "R", "O", "M">>
Str_AS == <<"A", "S">>
Str_scratch == <<"s", "c", "r", "a", "t", "c", "h">>

\* strings.Trim(cs, `"'`)
TrimQuotes(cs) ==
    LET kept == { k \in 1..Len(cs) : cs[k] \notin {"\"", "'"} }
    IN  IF kept = {} THEN <<>>
        ELSE SubSeq(cs, CHOOSE k \in kept : \A j \in kept : k <= j,
                        CHOOSE k \in kept : \A j \in kept : j <= k)

\* argPattern ^\s*ARG\s+(\w+)(?:=(.*))?$ on a trimmed line
argPattern(line) ==
    LET s1 == RunEnd(line, 4, Spaces)
        w1 == RunEnd(line, s1 + 1, WordChars)
    IN  IF /\ HasPrefix(line, Str_ARG)
           /\ s1 >= 4
           /\ w1 >= s1 + 1
           /\ (w1 = Len(line) \/ line[w1 + 1] = "=")
        THEN [ok |-> TRUE,
              name |-> SubSeq(line, s1 + 1, w1),
              value |-> IF w1 = Len(line) THEN <<>>
                        ELSE SubSeq(line, w1 + 2, Len(line))]
        ELSE [ok |-> FALSE, name |-> <<>>, value |-> <<>>]

\* fromPattern ^\s*FROM\s+(\S+)(?:\s+AS\s+(\w+))? on a trimmed line
fromPattern(line) ==
    LET s1 == RunEnd(line, 5, Spaces)
        r1 == RunEndNot(line, s1 + 1, Spaces)
        s2 == RunEnd(line, r1 + 1, Spaces)
        s3 == RunEnd(line, s2 + 3, Spaces)
        w3 == RunEnd(line, s3 + 1, WordChars)
        hasAlias == /\ s2 >= r1 + 1
                    /\ s2 + 2 <= Len(line)
                    /\ SubSeq(line, s2 + 1, s2 + 2) = Str_AS
                    /\ s3 >= s2 + 3
                    /\ w3 >= s3 + 1
    IN  IF HasPrefix(line, Str_FROM) /\ s1 >= 5 /\ r1 >= s1 + 1
        THEN [ok |-> TRUE,
              imageRef |-> SubSeq(line, s1 + 1, r1),
              alias |-> IF hasAlias THEN SubSeq(line, s3 + 1, w3) ELSE <<>>]
        ELSE [ok |-> FALSE, imageRef |-> <<>>, alias |-> <<>>]

\* One match of varPattern \$\{?(\w+)(?::-([^}]*))?\}? that starts at k:
\* where it ends (k - 1 when there is none), the name and the default.
varPattern(cs, k) ==
    LET brace == IF k + 1 <= Len(cs) /\ cs[k + 1] = "{" THEN 1 ELSE 0
        w0 == k + 1 + brace
        w1 == RunEnd(cs, w0, WordChars)
        hasDefault == /\ w1 + 2 <= Len(cs)
                      /\ cs[w1 + 1] = ":"
                      /\ cs[w1 + 2] = "-"
        d1 == IF hasDefault THEN RunEndNot(cs, w1 + 3, {"}"}) ELSE w1
        close == IF d1 + 1 <= Len(cs) /\ cs[d1 + 1] = "}" THEN 1 ELSE 0
    IN  IF cs[k] = "$" /\ w1 >= w0
        THEN [end |-> d1 + close,
              varName |-> SubSeq(cs, w0, w1),
              defaultVal |-> IF hasDefault THEN SubSeq(cs, w1 + 3, d1)
                             ELSE <<>>]
        ELSE [end |-> k - 1, varName |-> <<>>, defaultVal |-> <<>>]

\* resolveDockerfileVars: every match, from left to right, is replaced by the
\* value of the ARG, else by its default, else by itself.
RECURSIVE ReplaceAllFrom(_, _, _)
ReplaceAllFrom(cs, k, args) ==
    IF k > Len(cs) THEN <<>>
    ELSE LET m == varPattern(cs, k)
         IN  IF m.end < k
             THEN <<cs[k]>> \o ReplaceAllFrom(cs, k + 1, args)
             ELSE (IF m.varName \in DOMAIN args THEN args[m.varName]
                   ELSE IF m.defaultVal # <<>> THEN m.defaultVal
                   ELSE SubSeq(cs, k, m.end))
                  \o ReplaceAllFrom(cs, m.end + 1, args)

resolveDockerfileVars(imageRef, args) == ReplaceAllFrom(imageRef, 1, args)

\* Variant of ScanLine in which the first default declared for a name is
\* kept when the name is declared again.
ScanLine_KeepsFirstArg(st, text, path, lineNum) ==
    LET line == TrimSpace(text)
        arg == argPattern(line)
        from == fromPattern(line)
        argValue == TrimQuotes(TrimSpace(arg.value))
        aliases == IF from.alias # <<>>
                   THEN st.aliases \cup {ToLower(from.alias)}
                   ELSE st.aliases
        resolved == resolveDockerfileVars(from.imageRef, st.args)
        img == parseImageString(resolved, path, lineNum)
    IN  IF line = <<>> \/ HasPrefix(line, <<"#">>) THEN st
        ELSE IF arg.ok
        THEN IF argValue # <<>> /\ arg.name \notin DOMAIN st.args
             THEN [st EXCEPT !.args = MapPut(st.args, arg.name, argValue)]
             ELSE st
        ELSE IF from.ok
        THEN IF \/ Contains(resolved, <<"$">>)
                \/ ToLower(resolved) = Str_scratch
                \/ ToLower(resolved) \in aliases
                \/ img = Nil
             THEN [st EXCEPT !.aliases = aliases]
             ELSE [st EXCEPT !.aliases = aliases,
                             !.images = Append(st.images, img)]
        ELSE st

\* The body of the loop of parseDockerfile for line number lineNum; st holds
\* images, args and aliases.
ScanLine(st, text, path, lineNum) ==
    LET line == TrimSpace(text)
        arg == argPattern(line)
        from == fromPattern(line)
        argValue == TrimQuotes(TrimSpace(arg.value))
        aliases == IF from.alias # <<>>
                   THEN st.aliases \cup {ToLower(from.alias)}
                   ELSE st.aliases
        resolved == resolveDockerfileVars(from.imageRef, st.args)
        img == parseImageString(resolved, path, lineNum)
    IN  IF line = <<>> \/ HasPrefix(line, <<"#">>) THEN st
        ELSE IF arg.ok
        THEN IF argValue # <<>>
             THEN [st EXCEPT !.args = MapPut(st.args, arg.name, argValue)]
             ELSE st
        ELSE IF from.ok
        THEN IF \/ Contains(resolved, <<"$">>)
                \/ ToLower(resolved) = Str_scratch
                \/ ToLower(resolved) \in aliases
                \/ img = Nil
             THEN [st EXCEPT !.aliases = aliases]
             ELSE [st EXCEPT !.aliases = aliases,
                             !.images = Append(st.images, img)]
        ELSE st

RECURSIVE ScanLines(_, _, _, _)
ScanLines(st, lines, path, lineNum) ==
    IF lineNum > Len(lines) THEN st
    ELSE ScanLines(ScanLine(st, lines[lineNum], path, lineNum),
                   lines, path, lineNum + 1)

\* parseDockerfile: the images, and the args and aliases it ends with
parseDockerfile(lines, path) ==
    ScanLines([images |-> <<>>, args |-> EmptyMap, aliases |-> {}],
              lines, path, 1)

\* ------------------------------------------------------------------------
\* internal/scanner: Scan
\* ------------------------------------------------------------------------
\* Variant of AddImage in which a later occurrence replaces the entry kept.
AddImage_LastWins(st, img) ==
    IF img.FullImage \in st.seenImages
    THEN [st EXCEPT !.Images =
             [j \in 1..Len(@) |->
                 IF @[j].FullImage = img.FullImage THEN img ELSE @[j]]]
    ELSE [st EXCEPT !.seenImages = @ \cup {img.FullImage},
                    !.Images = Append(@, img)]

\* The body of the loop "for _, img := range images" of the Walk callback:
\* an image is appended unless its FullImage was seen.  st holds Images,
\* Charts, seenImages and seenCharts.
AddImage(st, img) ==
    IF img.FullImage \in st.seenImages THEN st
    ELSE [st EXCEPT !.seenImages = @ \cup {img.FullImage},
                    !.Images = Append(@, img)]

RECURSIVE AddImages(_, _, _)
AddImages(st, images, k) ==
    IF k > Len(images) THEN st
    ELSE AddImages(AddImage(st, images[k]), images, k + 1)

\* The loop "for _, c := range charts": key := c.Name + "@" + c.Version
RECURSIVE AddCharts(_, _, _)
AddCharts(st, charts, k) ==
    IF k > Len(charts) THEN st
    ELSE LET key == charts[k].Name \o "@" \o charts[k].Version
         IN  IF key \in st.seenCharts THEN AddCharts(st, charts, k + 1)
             ELSE AddCharts([st EXCEPT !.seenCharts = @ \cup {key},
                                       !.Charts = Append(@, charts[k])],
                            charts, k + 1)

\* What the parser of a file returns: its references with the path of the
\* file as their Path, nothing when the file cannot be parsed.
ParsedImages(f) ==
    IF f.err THEN <<>>
    ELSE [k \in 1..Len(f.refs) |->
            [FullImage |-> f.refs[k].FullImage, Line |-> f.refs[k].Line,
             Path |-> f.path]]
ParsedCharts(f) ==
    IF f.err THEN <<>>
    ELSE [k \in 1..Len(f.refs) |->
            [Name |-> f.refs[k].Name, Version |-> f.refs[k].Version,
             Upstream |-> f.refs[k].Upstream, Path |-> f.path]]

\* The Walk callback for one regular file
VisitFile(st, f) ==
    IF f.name = "Chart.yaml" THEN AddCharts(st, ParsedCharts(f), 1)
    ELSE IF f.name = "values.yaml" THEN AddImages(st, ParsedImages(f), 1)
    ELSE IF f.name = "Dockerfile" THEN AddImages(st, ParsedImages(f), 1)
    ELSE st

\* ------------------------------------------------------------------------
\* internal/checker
\* ------------------------------------------------------------------------
\* Variant of determineStatus that tests for an empty latest first.
determineStatus_EmptyFirst(current, latest) ==
    IF latest = "" THEN StatusUnknown
    ELSE IF current = latest THEN StatusUpToDate
    ELSE StatusUpdateAvailable

determineStatus(current, latest) ==
    IF current = latest THEN StatusUpToDate
    ELSE IF latest = "" THEN StatusUnknown
    ELSE StatusUpdateAvailable

\* One entry of the call log: which reference (pos counts images first, then
\* charts), which collaborator call, and how it answered.
Call(pos, op, key, ok, e) ==
    [pos |-> pos, op |-> op, key |-> key, ok |-> ok, err |-> e]

NewImageResult(img) ==
    [Repository |-> img.Repository, Registry |-> img.Registry,
     Current |-> img.Tag, Latest |-> "", Status |-> StatusUnknown,
     Skipped |-> FALSE, Error |-> "", Line |-> img.Line]

NewChartResult(chart) ==
    [Name |-> chart.Name, Current |-> chart.Version, Latest |-> "",
     Upstream |-> chart.Upstream, Status |-> StatusUnknown, Error |-> "",
     Line |-> chart.Line]

ImageCacheKey(img) == img.Registry \o "/" \o img.Repository
ChartCacheKey(chart) == chart.Upstream \o "/" \o chart.Name

\* The Error text checkImage and checkChart record for a failed lookup.
LookupError(e) == IF IsErrRateLimit(e) THEN "rate limit exceeded" ELSE e.msg

\* How long an HTTP exchange takes; local computation takes no time.
Delays == 0..1
After(t, http, dt) == IF http > 0 /\ t + dt <= MaxTime THEN t + dt ELSE t

\* checkImage on cache c at time t, the registry answering resp after dt: the
\* result, the cache and the clock afterwards and the calls made.
checkImage(img, c, t, resp, dt, pos) ==
    LET result == NewImageResult(img)
        cacheKey == ImageCacheKey(img)
        hit == GetImage(c, cacheKey, t)
        get == Call(pos, "GetImage", cacheKey, hit.ok, NoError)
        tagInfo == GetLatestTag(img.Registry, img.Repository, img.Tag, resp)
        fetch == Call(pos, "GetLatestTag", cacheKey, tagInfo.err = NoError,
                      tagInfo.err)
    IN  IF img.Skipped
        THEN [result |-> [result EXCEPT !.Status = StatusSkipped,
                                        !.Skipped = TRUE],
              cache |-> c, now |-> t, calls |-> <<>>]
        ELSE IF hit.ok
        THEN [result |-> [result EXCEPT
                            !.Latest = hit.Latest,
                            !.Status = determineStatus(img.Tag, hit.Latest)],
              cache |-> c, now |-> t, calls |-> <<get>>]
        ELSE IF tagInfo.err # NoError
        THEN [result |-> [result EXCEPT !.Status = StatusError,
                                        !.Error = LookupError(tagInfo.err)],
              cache |-> c, now |-> After(t, tagInfo.http, dt),
              calls |-> <<get, fetch>>]
        ELSE [result |-> [result EXCEPT
                            !.Latest = tagInfo.Latest,
                            !.Status = determineStatus(img.Tag, tagInfo.Latest)],
              cache |-> SetImage(c, cacheKey, tagInfo.Latest, tagInfo.AllTags,
                                After(t, tagInfo.http, dt)),
              now |-> After(t, tagInfo.http, dt),
              calls |-> <<get, fetch,
                          Call(pos, "SetImage", cacheKey, TRUE, NoError)>>]

checkChart(chart, c, t, resp, dt, pos) ==
    LET result == NewChartResult(chart)
        cacheKey == ChartCacheKey(chart)
        hit == GetChart(c, cacheKey, t)
        get == Call(pos, "GetChart", cacheKey, hit.ok, NoError)
        versionInfo == GetChartVersion(chart.Name, chart.Upstream, resp)
        fetch == Call(pos, "GetChartVersion", cacheKey,
                      versionInfo.err = NoError, versionInfo.err)
    IN  IF chart.Upstream = ""
        THEN [result |-> [result EXCEPT !.Status = StatusSkipped],
              cache |-> c, now |-> t, calls |-> <<>>]
        ELSE IF hit.ok
        THEN [result |-> [result EXCEPT
                            !.Latest = hit.Latest,
                            !.Status = determineStatus(chart.Version, hit.Latest)],
              cache |-> c, now |-> t, calls |-> <<get>>]
        ELSE IF versionInfo.err # NoError
        THEN [result |-> [result EXCEPT !.Status = StatusError,
                                        !.Error = LookupError(versionInfo.err)],
              cache |-> c, now |-> After(t, versionInfo.http, dt),
              calls |-> <<get, fetch>>]
        ELSE [result |-> [result EXCEPT
                            !.Latest = versionInfo.LatestVersion,
                            !.Status = determineStatus(chart.Version,
                                                       versionInfo.LatestVersion)],
              cache |-> SetChart(c, cacheKey, versionInfo.LatestVersion,
                                After(t, versionInfo.http, dt)),
              now |-> After(t, versionInfo.http, dt),
              calls |-> <<get, fetch,
                          Call(pos, "SetChart", cacheKey, TRUE, NoError)>>]

\* Variant of HaltedImageResult that forgets the tag and the line of the
\* reference.
HaltedImageResult_NoLocation(img) ==
    [NewImageResult(img) EXCEPT !.Status = StatusError,
                                !.Error = "rate limit hit",
                                !.Current = "", !.Line = 0]

\* Variant of HaltedImageResult that keeps excluded references Skipped after
\* the halt.
HaltedImageResult_KeepsSkipped(img) ==
    IF img.Skipped
    THEN [NewImageResult(img) EXCEPT !.Status = StatusSkipped, !.Skipped = TRUE]
    ELSE [NewImageResult(img) EXCEPT !.Status = StatusError,
                                     !.Error = "rate limit hit"]

\* The results CheckAll emits for a reference once rateLimitHit is set.
HaltedImageResult(img) ==
    [NewImageResult(img) EXCEPT !.Status = StatusError,
                                !.Error = "rate limit hit"]

HaltedChartResult(chart) ==
    [NewChartResult(chart) EXCEPT !.Status = StatusError,
                                  !.Error = "rate limit hit"]

\* Variant of SetsRateLimitHit that compares with the text of the halted
\* results instead of the text checkImage records.
SetsRateLimitHit_WrongText(result) == result.Error = "rate limit hit"

\* Variant of SetsRateLimitHit that halts on any failed lookup.
SetsRateLimitHit_AnyError(result) == result.Status = StatusError

\* CheckAll's test after each checked reference.
SetsRateLimitHit(result) == result.Error = "rate limit exceeded"

\* Variant of CheckAllError that never hands the sentinel to the caller.
CheckAllError_AlwaysNil(hit) == NoError

\* CheckAll's return value.
CheckAllError(hit) == IF hit THEN ErrRateLimit ELSE NoError

\* ------------------------------------------------------------------------
\* The program
\* ------------------------------------------------------------------------
NoResults == [Images |-> <<>>, Charts |-> <<>>]
\* no function has been given an argument, none has returned
NoInput == [fn |-> ""]
NoOutput == [fn |-> ""]
NoPrev == [results |-> NoResults, skipReads |-> FALSE, now |-> 0]

\* Scan appends a reference only if it has not seen it before
\* (seenImages, seenCharts).
Unseen(s) == \A a, b \in 1..Len(s) : a # b => s[a] # s[b]

Init ==
    /\ scan \in { [Images |-> im, Charts |-> ch] :
                    im \in { s \in SeqsUpTo(ImageUniverse, MaxImages) :
                                Unseen(s) },
                    ch \in { s \in SeqsUpTo(ChartUniverse, MaxCharts) :
                                Unseen(s) } }
    /\ file = NoFile
    /\ cache = New(TTL, FALSE)
    /\ now = 0
    /\ pc = "New"
    /\ i = 1
    /\ results = NoResults
    /\ rateLimitHit = FALSE
    /\ err = NoError
    /\ run = 1
    /\ calls = <<>>
    /\ prev = NoPrev
    /\ input = NoInput
    /\ output = NoOutput

\* main: cache.New with the TTL and the refresh / no-cache flag
MainNew ==
    /\ pc = "New"
    /\ \E skipReads \in BOOLEAN : cache' = New(TTL, skipReads)
    /\ pc' = "Load"
    /\ UNCHANGED <<scan, file, now, i, results, rateLimitHit, err, run,
                   calls, prev>>
    /\ UNCHANGED <<input, output>>

\* main: c.Load()
MainLoad ==
    /\ pc = "Load"
    /\ cache' = Load(cache, file)
    /\ err' = LoadError(file)
    /\ pc' = "Scan"
    /\ UNCHANGED <<scan, file, now, i, results, rateLimitHit, run,
                   calls, prev>>
    /\ UNCHANGED <<input, output>>

\* main: scanner.Scan, exit when nothing was found, else enter CheckAll
MainScan ==
    /\ pc = "Scan"
    /\ IF Len(scan.Charts) = 0 /\ Len(scan.Images) = 0
       THEN /\ pc' = "Exit"
            /\ UNCHANGED <<i, results, rateLimitHit, calls>>
       ELSE /\ pc' = "Images"
            /\ i' = 1
            /\ results' = NoResults
            /\ rateLimitHit' = FALSE
            /\ calls' = <<>>
    /\ err' = NoError
    /\ UNCHANGED <<scan, file, cache, now, run, prev>>
    /\ UNCHANGED <<input, output>>

\* CheckAll, image loop, rateLimitHit already set
ImageHalted ==
    /\ pc = "Images"
    /\ i <= Len(scan.Images)
    /\ rateLimitHit
    /\ results' = [results EXCEPT
                     !.Images = Append(@, HaltedImageResult(scan.Images[i]))]
    /\ i' = i + 1
    /\ UNCHANGED <<scan, file, cache, now, pc, rateLimitHit, err, run,
                   calls, prev>>
    /\ UNCHANGED <<input, output>>

\* CheckAll, image loop: checkImage and the test of its result
ImageChecked ==
    /\ pc = "Images"
    /\ i <= Len(scan.Images)
    /\ ~rateLimitHit
    /\ \E resp \in RegistryResponses, dt \in Delays :
         \E r \in {checkImage(scan.Images[i], cache, now, resp, dt, i)} :
           /\ results' = [results EXCEPT !.Images = Append(@, r.result)]
           /\ cache' = r.cache
           /\ calls' = calls \o r.calls
           /\ now' = r.now
           /\ rateLimitHit' = SetsRateLimitHit(r.result)
    /\ i' = i + 1
    /\ UNCHANGED <<scan, file, pc, err, run, prev>>
    /\ UNCHANGED <<input, output>>

ImagesDone ==
    /\ pc = "Images"
    /\ i > Len(scan.Images)
    /\ pc' = "Charts"
    /\ i' = 1
    /\ UNCHANGED <<scan, file, cache, now, results, rateLimitHit, err, run,
                   calls, prev>>
    /\ UNCHANGED <<input, output>>

\* CheckAll, chart loop, rateLimitHit already set
ChartHalted ==
    /\ pc = "Charts"
    /\ i <= Len(scan.Charts)
    /\ rateLimitHit
    /\ results' = [results EXCEPT
                     !.Charts = Append(@, HaltedChartResult(scan.Charts[i]))]
    /\ i' = i + 1
    /\ UNCHANGED <<scan, file, cache, now, pc, rateLimitHit, err, run,
                   calls, prev>>
    /\ UNCHANGED <<input, output>>

\* CheckAll, chart loop: checkChart and the test of its result
ChartChecked ==
    /\ pc = "Charts"
    /\ i <= Len(scan.Charts)
    /\ ~rateLimitHit
    /\ \E resp \in ChartResponses, dt \in Delays :
         \E r \in {checkChart(scan.Charts[i], cache, now, resp, dt,
                                Len(scan.Images) + i)} :
           /\ results' = [results EXCEPT !.Charts = Append(@, r.result)]
           /\ cache' = r.cache
           /\ calls' = calls \o r.calls
           /\ now' = r.now
           /\ rateLimitHit' = SetsRateLimitHit(r.result)
    /\ i' = i + 1
    /\ UNCHANGED <<scan, file, pc, err, run, prev>>
    /\ UNCHANGED <<input, output>>

\* CheckAll returns
CheckAllReturn ==
    /\ pc = "Charts"
    /\ i > Len(scan.Charts)
    /\ err' = CheckAllError(rateLimitHit)
    /\ pc' = "Save"
    /\ UNCHANGED <<scan, file, cache, now, i, results, rateLimitHit, run,
                   calls, prev>>
    /\ UNCHANGED <<input, output>>

\* main: c.Save()
MainSave ==
    /\ pc = "Save"
    /\ file' = Save(cache)
    /\ pc' = "Exit"
    /\ UNCHANGED <<scan, cache, now, i, results, rateLimitHit, err, run,
                   calls, prev>>
    /\ UNCHANGED <<input, output>>

\* the process ends and the program is started again on the same directory:
\* only the cache file and the directory outlive the process
NextRun ==
    /\ pc = "Exit"
    /\ run < MaxRuns
    /\ run' = run + 1
    /\ pc' = "New"
    /\ cache' = New(TTL, FALSE)
    /\ i' = 1
    /\ results' = NoResults
    /\ rateLimitHit' = FALSE
    /\ err' = NoError
    /\ calls' = <<>>
    /\ UNCHANGED <<scan, file, now, prev>>
    /\ UNCHANGED <<input, output>>

\* time passes between two runs of the program
Tick ==
    /\ pc = "Exit"
    /\ now < MaxTime
    /\ now' = now + 1
    /\ UNCHANGED <<scan, file, cache, pc, i, results, rateLimitHit, err, run,
                   calls, prev>>
    /\ UNCHANGED <<input, output>>

\* NextRun, remembering the Results of the run that ended, the mode of its
\* cache and the time at which the new run starts
Rerun ==
    /\ pc = "Exit"
    /\ run < MaxRuns
    /\ run' = run + 1
    /\ pc' = "New"
    /\ prev' = [results |-> results, skipReads |-> cache.skipReads, now |-> now]
    /\ cache' = New(TTL, FALSE)
    /\ i' = 1
    /\ results' = NoResults
    /\ rateLimitHit' = FALSE
    /\ err' = NoError
    /\ calls' = <<>>
    /\ UNCHANGED <<scan, file, now>>
    /\ UNCHANGED <<input, output>>

Next ==
    \/ MainNew
    \/ MainLoad
    \/ MainScan
    \/ ImageHalted
    \/ ImageChecked
    \/ ImagesDone
    \/ ChartHalted
    \/ ChartChecked
    \/ CheckAllReturn
    \/ MainSave
    \/ NextRun
    \/ Tick

Spec == Init /\ [][Next]_vars

\* Two runs of the program over the same directory, the second one
\* remembering the first; the directories scanned here are small.
InitTwice ==
    /\ Init
    /\ Len(scan.Images) + Len(scan.Charts) <= MaxTwiceRefs

NextTwice ==
    \/ MainNew
    \/ MainLoad
    \/ MainScan
    \/ ImageHalted
    \/ ImageChecked
    \/ ImagesDone
    \/ ChartHalted
    \/ ChartChecked
    \/ CheckAllReturn
    \/ MainSave
    \/ Rerun
    \/ Tick

SpecTwice == InitTwice /\ [][NextTwice]_vars

\* ------------------------------------------------------------------------
\* The program started on a directory that already holds a cache file
\* ------------------------------------------------------------------------
\* Entries a cache file found on disk can hold.
FileImages ==
    { EmptyMap,
      MapPut(EmptyMap, "docker.io/nginx",
             [Latest |-> "2.0", CheckedAt |-> 0, AllTags |-> <<"1.0", "2.0">>]) }
FileCharts ==
    { EmptyMap,
      MapPut(EmptyMap, "trinodb/trino",
             [Latest |-> "1.0", CheckedAt |-> 0, AllTags |-> <<>>]) }
CacheFiles ==
    {NoFile} \cup
    { [kind |-> k, Images |-> im, Charts |-> ch] :
        k \in {"json", "syntax", "type"}, im \in FileImages, ch \in FileCharts }

\* The references of the scanned directory: the image the file can hold an
\* entry for, and one it holds none for.
FileScanImages ==
    { img \in ImageUniverse :
        img.Repository \in {"nginx", "org/app"} /\ img.Tag # "" }

InitFiles ==
    /\ scan \in { [Images |-> im, Charts |-> ch] :
                    im \in { s \in SeqsUpTo(FileScanImages, MaxFileRefs + 1) :
                                Unseen(s) },
                    ch \in SeqsUpTo(ChartUniverse, MaxFileRefs) }
    /\ file \in CacheFiles
    /\ cache = New(TTL, FALSE)
    /\ now = 0
    /\ pc = "New"
    /\ i = 1
    /\ results = NoResults
    /\ rateLimitHit = FALSE
    /\ err = NoError
    /\ run = 1
    /\ calls = <<>>
    /\ prev = NoPrev
    /\ input = NoInput
    /\ output = NoOutput

SpecFiles == InitFiles /\ [][Next]_vars

\* ------------------------------------------------------------------------
\* The cache used as TestCache_Persistence uses it: a first instance that is
\* written and saved, a second instance that loads the file and is read
\* ------------------------------------------------------------------------
\* Keys the instances are written and read with, in either mapping.
CacheKeys == {"docker.io/nginx", "trinodb/trino"}
CacheLatests == {"1.0", "2.0"}
CacheTagLists == { <<>>, <<"1.0", "2.0">> }

\* c1 := New(cacheFile, ttl, skipReads)
InitPersistence ==
    /\ scan = [Images |-> <<>>, Charts |-> <<>>]
    /\ file = NoFile
    /\ \E skipReads \in BOOLEAN : cache = New(TTL, skipReads)
    /\ now = 0
    /\ pc = "c1"
    /\ i = 1
    /\ results = NoResults
    /\ rateLimitHit = FALSE
    /\ err = NoError
    /\ run = 1
    /\ calls = <<>>
    /\ prev = NoPrev
    /\ input = NoInput
    /\ output = NoOutput

\* c1.SetImage(key, latest, allTags)
Persistence_SetImage ==
    /\ pc = "c1"
    /\ Len(calls) < MaxSets
    /\ \E key \in CacheKeys, latest \in CacheLatests, tags \in CacheTagLists :
          /\ cache' = SetImage(cache, key, latest, tags, now)
          /\ calls' = Append(calls, [op |-> "SetImage", key |-> key,
                                     latest |-> latest, tags |-> tags,
                                     at |-> now])
    /\ UNCHANGED <<scan, file, now, pc, i, results, rateLimitHit, err, run,
                   prev>>
    /\ UNCHANGED <<input, output>>

\* c1.SetChart(key, latest)
Persistence_SetChart ==
    /\ pc = "c1"
    /\ Len(calls) < MaxSets
    /\ \E key \in CacheKeys, latest \in CacheLatests :
          /\ cache' = SetChart(cache, key, latest, now)
          /\ calls' = Append(calls, [op |-> "SetChart", key |-> key,
                                     latest |-> latest, tags |-> <<>>,
                                     at |-> now])
    /\ UNCHANGED <<scan, file, now, pc, i, results, rateLimitHit, err, run,
                   prev>>
    /\ UNCHANGED <<input, output>>

\* c1.Save()
Persistence_Save ==
    /\ pc = "c1"
    /\ file' = Save(cache)
    /\ pc' = "saved"
    /\ UNCHANGED <<scan, cache, now, i, results, rateLimitHit, err, run,
                   calls, prev>>
    /\ UNCHANGED <<input, output>>

\* c2 := New(cacheFile, ttl, skipReads); c2.Load()
Persistence_Load ==
    /\ pc = "saved"
    /\ \E skipReads \in BOOLEAN : cache' = Load(New(TTL, skipReads), file)
    /\ err' = LoadError(file)
    /\ run' = run + 1
    /\ pc' = "c2"
    /\ UNCHANGED <<scan, file, now, i, results, rateLimitHit, calls, prev>>
    /\ UNCHANGED <<input, output>>

\* c2.GetImage(key)
Persistence_GetImage ==
    /\ pc = "c2"
    /\ \E key \in CacheKeys :
          results' = [op |-> "GetImage", key |-> key, at |-> now,
                      out |-> GetImage(cache, key, now)]
    /\ UNCHANGED <<scan, file, cache, now, pc, i, rateLimitHit, err, run,
                   calls, prev>>
    /\ UNCHANGED <<input, output>>

\* c2.GetChart(key)
Persistence_GetChart ==
    /\ pc = "c2"
    /\ \E key \in CacheKeys :
          results' = [op |-> "GetChart", key |-> key, at |-> now,
                      out |-> GetChart(cache, key, now)]
    /\ UNCHANGED <<scan, file, cache, now, pc, i, rateLimitHit, err, run,
                   calls, prev>>
    /\ UNCHANGED <<input, output>>

\* time passes between any two calls
Persistence_Sleep ==
    /\ now < MaxTime
    /\ now' = now + 1
    /\ UNCHANGED <<scan, file, cache, pc, i, results, rateLimitHit, err, run,
                   calls, prev>>
    /\ UNCHANGED <<input, output>>

NextPersistence ==
    \/ Persistence_SetImage
    \/ Persistence_SetChart
    \/ Persistence_Save
    \/ Persistence_Load
    \/ Persistence_GetImage
    \/ Persistence_GetChart
    \/ Persistence_Sleep

SpecPersistence == InitPersistence /\ [][NextPersistence]_vars

\* ------------------------------------------------------------------------
\* Functions called on their own, as the tests of their packages call them
\* ------------------------------------------------------------------------
\* The program itself does nothing while a function is called on its own.
Idle ==
    /\ scan = [Images |-> <<>>, Charts |-> <<>>]
    /\ file = NoFile
    /\ cache = New(TTL, FALSE)
    /\ now = 0
    /\ pc = "call"
    /\ i = 1
    /\ results = NoResults
    /\ rateLimitHit = FALSE
    /\ err = NoError
    /\ run = 1
    /\ calls = <<>>
    /\ prev = NoPrev

\* Tag names a registry can list and tags an image can be pinned to.
TagUniverse ==
    {"1.0", "2.0", "10.0", "1.0.0", "v1.0", "v2.0", "2.1-rc1", "latest"}
PinnedUniverse == TagUniverse \cup {""}

InitLatest ==
    /\ Idle
    /\ input \in { [fn |-> "findLatestTag", tags |-> t, currentTag |-> c] :
                     t \in SeqsUpTo(TagUniverse, MaxTags),
                     c \in PinnedUniverse }
    /\ output = NoOutput

\* findLatestTag(tags, currentTag)
Call_findLatestTag ==
    /\ input.fn = "findLatestTag"
    /\ output = NoOutput
    /\ \E latest \in findLatestTagOutcomes(input.tags, input.currentTag) :
          output' = [fn |-> "findLatestTag", latest |-> latest]
    /\ UNCHANGED <<scan, file, cache, now, pc, i, results, rateLimitHit, err,
                   run, calls, prev, input>>

NextLatest == Call_findLatestTag

SpecLatest == InitLatest /\ [][NextLatest]_vars

\* Tag lists as long as a registry page: two tags of the same version, one
\* of them with a suffix, among tags of a lower version.
MaxLongTags == 13
LongTagLists ==
    { [k \in 1..MaxLongTags |->
          IF k = p THEN "2.0-rc1" ELSE IF k = q THEN "2.0" ELSE "1.0"] :
        p \in 1..MaxLongTags, q \in 1..MaxLongTags }

InitLatestLong ==
    /\ Idle
    /\ input \in { [fn |-> "findLatestTag", tags |-> t, currentTag |-> c] :
                     t \in LongTagLists, c \in {"1.0", "v1.0", "latest"} }
    /\ output = NoOutput

SpecLatestLong == InitLatestLong /\ [][NextLatest]_vars

\* The packages a search answer can list, and the answers ArtifactHub can
\* give to a lookup of the chart "trino".
SearchPackages ==
    { [Name |-> "trino", Repository |-> "trino", Version |-> "1.0"],
      [Name |-> "trino", Repository |-> "bitnami", Version |-> "2.0"],
      [Name |-> "trino", Repository |-> "community", Version |-> "3.0"],
      [Name |-> "trino-gateway", Repository |-> "trino", Version |-> "4.0"] }
ChartAnswers ==
    { [direct |-> d, version |-> IF d = 200 THEN "5.0" ELSE "", search |-> s,
       packages |-> ps] :
        d \in {200, 429, 404, 500}, s \in {429, 500},
        ps \in { <<>> } }
    \cup
    { [direct |-> d, version |-> IF d = 200 THEN "5.0" ELSE "",
       search |-> 200, packages |-> ps] :
        d \in {200, 429, 404, 500},
        ps \in { <<>> } \cup { <<a>> : a \in SearchPackages }
               \cup { <<a, b>> : a \in SearchPackages, b \in SearchPackages } }

InitChart ==
    /\ Idle
    /\ input \in { [fn |-> "GetChartVersion", chartName |-> "trino",
                    upstream |-> u, resp |-> r] :
                      u \in {"", "trinodb", "bitnami"}, r \in ChartAnswers }
    /\ output = NoOutput

\* GetChartVersion(chartName, upstream)
Call_GetChartVersion ==
    /\ input.fn = "GetChartVersion"
    /\ output = NoOutput
    /\ output' = [fn |-> "GetChartVersion",
                  versionInfo |-> GetChartVersion(input.chartName,
                                                  input.upstream, input.resp)]
    /\ UNCHANGED <<scan, file, cache, now, pc, i, results, rateLimitHit, err,
                   run, calls, prev, input>>

NextChart == Call_GetChartVersion

SpecChart == InitChart /\ [][NextChart]_vars

\* The image strings parseImageString is given: blanks, an optional first
\* segment, a repository, an optional tag, blanks.
ImagePrefixes ==
    { <<>>, <<"q", "u", "a", "y", ".", "i", "o", "/">>, <<"l", "o", "c", "a", "l", "h", "o", "s", "t", ":", "5", "0", "0", "0", "/">>,
      <<"t", "h", "i", "n", "k", "p", "o", "r", "t", "g", "m", "b", "h", ".", "i", "o", "/">>,
      <<"/">>, <<".">> }
ImageRepositories ==
    { <<>>, <<"n", "g", "i", "n", "x">>, Str_latest,
      Str_thinkportgmbh \o <<"/", "w", "o", "r", "k", "s", "h", "o", "p", "s">>,
      <<"m", "i", "n", "i", "o", "/", "m", "i", "n", "i", "o">> }
ImageTags ==
    { <<>>, <<":">>, <<":", "1", ".", "0">>, <<":">> \o Str_latest,
      <<":">> \o Str_thinkportgmbh,
      <<":", "1", ".", "0", "@", "s", "h", "a", ":", "a", "b">> }
Blanks == { <<>>, <<" ">>, <<"\t", " ">> }
ImageStrings ==
    { b1 \o pre \o repo \o tag \o b2 :
        b1 \in Blanks, pre \in ImagePrefixes, repo \in ImageRepositories,
        tag \in ImageTags, b2 \in Blanks }

InitParseImage ==
    /\ Idle
    /\ input \in { [fn |-> "parseImageString", imageStr |-> str,
                    path |-> "values.yaml", line |-> ln] :
                     str \in ImageStrings, ln \in 1..MaxLine }
    /\ output = NoOutput

\* parseImageString(imageStr, path, line)
Call_parseImageString ==
    /\ input.fn = "parseImageString"
    /\ output = NoOutput
    /\ output' = [fn |-> "parseImageString",
                  img |-> parseImageString(input.imageStr, input.path,
                                           input.line)]
    /\ UNCHANGED <<scan, file, cache, now, pc, i, results, rateLimitHit, err,
                   run, calls, prev, input>>

NextParseImage == Call_parseImageString

SpecParseImage == InitParseImage /\ [][NextParseImage]_vars

\* The lines a Dockerfile is made of.
DockerfileLines ==
    { <<>>,
      <<"#", " ", "b", "u", "i", "l", "d", " ", "s", "t", "a", "g", "e">>,
      <<"A", "R", "G", " ", "B", "A", "S", "E", "=", "n", "g", "i", "n", "x", ":", "1", ".", "2", "5">>,
      <<"A", "R", "G", " ", "B", "A", "S", "E">>,
      <<"A", "R", "G", " ", "B", "A", "S", "E", "=", "r", "e", "d", "i", "s", ":", "7">>,
      <<"A", "R", "G", " ", "B", "A", "S", "E", "=", "\"", "\"">>,
      <<"F", "R", "O", "M", " ", "g", "o", "l", "a", "n", "g", ":", "1", ".", "2", "1", " ", "A", "S", " ", "b", "u", "i", "l", "d", "e", "r">>,
      <<"F", "R", "O", "M", " ", "b", "u", "i", "l", "d", "e", "r">>,
      <<"F", "R", "O", "M", " ", "s", "c", "r", "a", "t", "c", "h">>,
      <<"F", "R", "O", "M", " ", "$", "B", "A", "S", "E">>,
      <<"F", "R", "O", "M", " ", "u", "b", "u", "n", "t", "u">>,
      <<"F", "R", "O", "M", " ", "$", "{", "B", "A", "S", "E", ":", "-", "a", "l", "p", "i", "n", "e", ":", "3", ".", "1", "9", "}">>,
      <<" ", " ", "F", "R", "O", "M", " ", "q", "u", "a", "y", ".", "i", "o", "/", "m", "i", "n", "i", "o", "/", "m", "i", "n", "i", "o", ":", "1", ".", "0", " ">>,
      <<"R", "U", "N", " ", "m", "a", "k", "e">> }

InitDockerfile ==
    /\ Idle
    /\ input \in { [fn |-> "parseDockerfile", lines |-> ls,
                    path |-> "Dockerfile"] :
                     ls \in SeqsUpTo(DockerfileLines, MaxDockerfileLines) }
    /\ output = NoOutput

\* parseDockerfile(path)
Call_parseDockerfile ==
    /\ input.fn = "parseDockerfile"
    /\ output = NoOutput
    /\ output' = [fn |-> "parseDockerfile",
                  images |-> parseDockerfile(input.lines, input.path).images]
    /\ UNCHANGED <<scan, file, cache, now, pc, i, results, rateLimitHit, err,
                   run, calls, prev, input>>

NextDockerfile == Call_parseDockerfile

SpecDockerfile == InitDockerfile /\ [][NextDockerfile]_vars

\* The directory Scan walks: filepath.Walk visits the files in lexical order
\* of their paths.  Each file holds what its parser finds in it.
ImageRefs ==
    { [FullImage |-> "nginx:1.0", Line |-> 1],
      [FullImage |-> "nginx:1.0", Line |-> 2],
      [FullImage |-> "redis:7", Line |-> 2] }
ChartRefs ==
    { [Name |-> "common", Version |-> "1.0", Upstream |-> "bitnami"],
      [Name |-> "common", Version |-> "1.0", Upstream |-> ""],
      [Name |-> "trino", Version |-> "1.0", Upstream |-> "trinodb"] }
ImageContents == { <<>> } \cup { <<a>> : a \in ImageRefs }
                 \cup { <<a, b>> : a \in ImageRefs, b \in ImageRefs }
ChartContents == { <<>> } \cup { <<a>> : a \in ChartRefs }
                 \cup { <<a, b>> : a \in ChartRefs, b \in ChartRefs }
FilesAt(path, name, contents) ==
    { [path |-> path, name |-> name, err |-> FALSE, refs |-> c] :
        c \in contents }
    \cup { [path |-> path, name |-> name, err |-> TRUE, refs |-> <<>>] }
Directories ==
    { <<f1, f2, f3, f4>> :
        f1 \in FilesAt("a/Chart.yaml", "Chart.yaml", ChartContents),
        f2 \in FilesAt("a/values.yaml", "values.yaml", ImageContents),
        f3 \in FilesAt("b/Chart.yaml", "Chart.yaml", { <<>> } \cup
                          { <<a>> : a \in ChartRefs }),
        f4 \in FilesAt("b/Dockerfile", "Dockerfile", { <<>> } \cup
                          { <<a>> : a \in ImageRefs }) }

InitScan ==
    /\ Idle
    /\ input \in { [fn |-> "Scan", files |-> d] : d \in Directories }
    /\ output = NoOutput

\* Scan: the empty results and seen maps
Scan_Start ==
    /\ input.fn = "Scan"
    /\ output = NoOutput
    /\ output' = [fn |-> "Scan", visited |-> 0, returned |-> FALSE,
                  Images |-> <<>>, Charts |-> <<>>,
                  seenImages |-> {}, seenCharts |-> {}]
    /\ UNCHANGED <<scan, file, cache, now, pc, i, results, rateLimitHit, err,
                   run, calls, prev, input>>

\* Scan: filepath.Walk calls the callback for the next file
Scan_Visit ==
    /\ output.fn = "Scan"
    /\ output.visited < Len(input.files)
    /\ output' = [VisitFile(output, input.files[output.visited + 1])
                    EXCEPT !.visited = @ + 1]
    /\ UNCHANGED <<scan, file, cache, now, pc, i, results, rateLimitHit, err,
                   run, calls, prev, input>>

\* Scan: return results, err
Scan_Return ==
    /\ output.fn = "Scan"
    /\ output.visited = Len(input.files)
    /\ ~output.returned
    /\ output' = [output EXCEPT !.returned = TRUE]
    /\ UNCHANGED <<scan, file, cache, now, pc, i, results, rateLimitHit, err,
                   run, calls, prev, input>>

NextScan ==
    \/ Scan_Start
    \/ Scan_Visit
    \/ Scan_Return

SpecScan == InitScan /\ [][NextScan]_vars

\* The registry hosts GetLatestTag is called with: the hosts the README
\* lists under "Supported Registries" (Docker Hub both as docker.io and as
\* the empty host), and one it does not list.
ReadmeRegistries ==
    {"", "docker.io", "quay.io", "ghcr.io", "gcr.io", "registry.k8s.io"}
RegistryHosts == ReadmeRegistries \cup {"registry.example.com"}

InitRegistry ==
    /\ Idle
    /\ input \in { [fn |-> "GetLatestTag", registry |-> h,
                    repository |-> "org/app", currentTag |-> t, resp |-> r] :
                      h \in RegistryHosts, t \in {"", "1.0", "v1.0"},
                      r \in RegistryResponses }
    /\ output = NoOutput

Call_GetLatestTag ==
    /\ input.fn = "GetLatestTag"
    /\ output = NoOutput
    /\ output' = [fn |-> "GetLatestTag",
                  tagInfo |-> GetLatestTag(input.registry, input.repository,
                                           input.currentTag, input.resp)]
    /\ UNCHANGED <<scan, file, cache, now, pc, i, results, rateLimitHit, err,
                   run, calls, prev, input>>

NextRegistry == Call_GetLatestTag

SpecRegistry == InitRegistry /\ [][NextRegistry]_vars

\* ------------------------------------------------------------------------
\* Vocabulary of the properties
\* ------------------------------------------------------------------------
NumRefs == Len(scan.Images) + Len(scan.Charts)
Emitted == results.Images \o results.Charts
NumEmitted == Len(Emitted)
RefAt(p) == IF p <= Len(scan.Images) THEN scan.Images[p]
            ELSE scan.Charts[p - Len(scan.Images)]
IsImagePos(p) == p <= Len(scan.Images)
\* CheckAll has returned and main has not yet saved the cache
Returned == pc = "Save"
CacheGets == {"GetImage", "GetChart"}
CacheSets == {"SetImage", "SetChart"}
ResolverCalls == {"GetLatestTag", "GetChartVersion"}
CallsAt(p) == { j \in 1..Len(calls) : calls[j].pos = p }
RateLimitedAt(p) == \E j \in CallsAt(p) : calls[j].err = ErrRateLimit
RateLimitedBefore(p) == \E q \in 1..(p - 1) : RateLimitedAt(q)
\* a reference that checkImage / checkChart short-circuits
ShortCircuits(p) == IF IsImagePos(p) THEN RefAt(p).Skipped
                    ELSE RefAt(p).Upstream = ""

\* C1: when the lookup of reference K is the first to return the RateLimit
\* error, no reference before K carries "rate limit hit", reference K is Error
\* "rate limit exceeded", every reference after K is Error "rate limit hit",
\* and the call that returned RateLimit is the last Resolver or Cache call of
\* the run.
C1_HaltSemantics ==
    \A j \in 1..Len(calls) :
        calls[j].err = ErrRateLimit =>
            LET K == calls[j].pos IN
              /\ j = Len(calls)
              /\ \A p \in 1..NumEmitted :
                    /\ p < K => Emitted[p].Error # "rate limit hit"
                    /\ p = K => /\ Emitted[p].Status = StatusError
                                /\ Emitted[p].Error = "rate limit exceeded"
                    /\ p > K => /\ Emitted[p].Status = StatusError
                                /\ Emitted[p].Error = "rate limit hit"
              /\ Returned => NumEmitted = NumRefs

\* C1 witness: a run that returned, rate-limited at a reference that has a
\* looked-up reference before it and a reference after it.
C1_Witness ==
    /\ Returned
    /\ NumRefs = 3
    /\ RateLimitedAt(2)
    /\ \E j \in CallsAt(1) : calls[j].op \in ResolverCalls
    /\ Emitted[3].Error = "rate limit hit"

\* C2: CheckAll returns the RateLimit sentinel exactly when a lookup of the
\* run returned RateLimit (the halt flag was set), also when that reference is
\* the last one; otherwise, generic lookup errors included, it returns nil.
C2_OverallError ==
    Returned =>
        /\ rateLimitHit <=> (\E p \in 1..NumRefs : RateLimitedAt(p))
        /\ IF \E p \in 1..NumRefs : RateLimitedAt(p)
           THEN err = ErrRateLimit
           ELSE err = NoError

\* C2 witness: the very last reference is the rate-limited one, after a
\* generic lookup error, and the sentinel is returned.
C2_Witness ==
    /\ Returned
    /\ NumRefs >= 2
    /\ RateLimitedAt(NumRefs)
    /\ \E j \in 1..Len(calls) : calls[j].err.kind = "error"
    /\ err = ErrRateLimit

\* C3: CheckAll emits exactly one result per reference, in input order,
\* images before charts, whatever the lookups answer.
C3_OneResultPerReference ==
    /\ Len(results.Images) <= Len(scan.Images)
    /\ Len(results.Charts) <= Len(scan.Charts)
    /\ Returned => /\ Len(results.Images) = Len(scan.Images)
                   /\ Len(results.Charts) = Len(scan.Charts)
    /\ \A k \in 1..Len(results.Images) :
          /\ results.Images[k].Repository = scan.Images[k].Repository
          /\ results.Images[k].Registry = scan.Images[k].Registry
          /\ results.Images[k].Current = scan.Images[k].Tag
          /\ results.Images[k].Line = scan.Images[k].Line
    /\ \A k \in 1..Len(results.Charts) :
          /\ results.Charts[k].Name = scan.Charts[k].Name
          /\ results.Charts[k].Current = scan.Charts[k].Version
          /\ results.Charts[k].Upstream = scan.Charts[k].Upstream
          /\ results.Charts[k].Line = scan.Charts[k].Line

\* C3 witness: a returned run over three references that met a generic
\* failure, then a rate limit, and then emitted a halted reference.
C3_Witness ==
    /\ Returned
    /\ NumRefs = 3
    /\ Emitted[1].Status = StatusError
    /\ Emitted[1].Error \notin {"rate limit exceeded", "rate limit hit"}
    /\ Emitted[2].Error = "rate limit exceeded"
    /\ Emitted[3].Error = "rate limit hit"

\* C5 as stated: a skipped image and a chart without upstream always get
\* status Skipped, with no Cache and no Resolver call, also after a rate limit.
C5_AlwaysSkipped ==
    \A p \in 1..NumEmitted :
        ShortCircuits(p) => /\ Emitted[p].Status = StatusSkipped
                            /\ CallsAt(p) = {}

\* C5 amended: a skipped image and a chart without upstream never cause a
\* Cache or Resolver call; they get status Skipped when they are reached
\* before the halt, and Error "rate limit hit" like every other reference
\* when they come after a rate-limited reference.
C5_SkippedUnlessHalted ==
    \A p \in 1..NumEmitted :
        ShortCircuits(p) =>
            /\ CallsAt(p) = {}
            /\ IF RateLimitedBefore(p)
               THEN /\ Emitted[p].Status = StatusError
                    /\ Emitted[p].Error = "rate limit hit"
               ELSE /\ Emitted[p].Status = StatusSkipped
                    /\ Emitted[p].Error = ""

\* C5 witness: a skipped image emitted after a rate-limited reference, and a
\* chart without upstream after it.
C5_Witness ==
    /\ Returned
    /\ NumRefs = 3
    /\ RateLimitedAt(1)
    /\ ShortCircuits(2) /\ IsImagePos(2)
    /\ ShortCircuits(3) /\ ~IsImagePos(3)
    /\ Emitted[2].Status = StatusError

\* C6: a reference answered by the cache or by a successful lookup is
\* UpToDate when pinned and latest are equal (both empty included), Unknown
\* when latest is empty and pinned is not, UpdateAvailable otherwise.
C6_StatusDerivation ==
    \A p \in 1..NumEmitted :
        (\E j \in CallsAt(p) :
            calls[j].op \in CacheGets \cup ResolverCalls /\ calls[j].ok) =>
            LET pinned == Emitted[p].Current
                latest == Emitted[p].Latest
            IN  /\ Emitted[p].Error = ""
                /\ pinned = latest => Emitted[p].Status = StatusUpToDate
                /\ (latest = "" /\ pinned # "") =>
                       Emitted[p].Status = StatusUnknown
                /\ (latest # "" /\ pinned # latest) =>
                       Emitted[p].Status = StatusUpdateAvailable

\* C6 witness: one run showing all three: pinned and latest both empty,
\* latest empty alone, and two different non-empty versions.
C6_Witness ==
    /\ Returned
    /\ \E p \in 1..NumEmitted :
          /\ Emitted[p].Current = "" /\ Emitted[p].Latest = ""
          /\ Emitted[p].Status = StatusUpToDate
    /\ \E p \in 1..NumEmitted :
          /\ Emitted[p].Current # "" /\ Emitted[p].Latest = ""
          /\ Emitted[p].Status = StatusUnknown
    /\ \E p \in 1..NumEmitted :
          /\ Emitted[p].Current # "" /\ Emitted[p].Latest # ""
          /\ Emitted[p].Status = StatusUpdateAvailable

\* C7: a Resolver failure other than the RateLimit error gives this reference
\* status Error with the failure's message and does not set the halt flag:
\* the flag is set only after a RateLimit failure, and the references after a
\* generic failure are still processed (cache consulted) until a rate limit.
C7_GenericFailureDoesNotHalt ==
    /\ rateLimitHit => \E p \in 1..NumEmitted : RateLimitedAt(p)
    /\ \A j \in 1..Len(calls) :
          calls[j].err.kind = "error" =>
              LET p == calls[j].pos IN
                /\ Emitted[p].Status = StatusError
                /\ Emitted[p].Error = calls[j].err.msg
                /\ \A q \in (p + 1)..NumEmitted :
                      ~RateLimitedBefore(q) =>
                          /\ Emitted[q].Error # "rate limit hit"
                          /\ ~ShortCircuits(q) =>
                                \E k \in CallsAt(q) : calls[k].op \in CacheGets

\* C7 witness: a generic failure followed by a reference that was looked up
\* at its registry.
C7_Witness ==
    /\ Returned
    /\ \E j \in 1..Len(calls), k \in 1..Len(calls) :
          /\ calls[j].err.kind = "error"
          /\ calls[k].pos > calls[j].pos
          /\ calls[k].op \in ResolverCalls
          /\ calls[k].ok

\* C9 as stated: for a cache constructed with the third argument true, Save
\* writes nothing: a first run in that mode leaves no cache file behind.
C9_DisabledSaveWritesNoFile ==
    (run = 1 /\ cache.skipReads) => file.kind = "missing"

\* The step checks the reference at index i (checkImage or checkChart runs).
ChecksReference ==
    /\ pc \in {"Images", "Charts"}
    /\ ~rateLimitHit
    /\ i' = i + 1
CheckedKey == IF pc = "Images" THEN ImageCacheKey(scan.Images[i])
              ELSE ChartCacheKey(scan.Charts[i])
CheckedMap(c) == IF pc = "Images" THEN c.Images ELSE c.Charts
CheckedPos == IF pc = "Images" THEN i ELSE Len(scan.Images) + i
NewCalls == { j \in (Len(calls) + 1)..Len(calls') : TRUE }
SameProcess == run' = run /\ pc \notin {"New", "Load"}

\* What one step does to an expired entry and to the cache as a whole.
C10_Step ==
    /\ (/\ ChecksReference
        /\ ~ShortCircuits(CheckedPos)
        /\ ~cache.skipReads
        /\ CheckedKey \in DOMAIN CheckedMap(cache)
        /\ now - CheckedMap(cache)[CheckedKey].CheckedAt > cache.ttl)
       => \E j \in NewCalls : /\ calls'[j].op \in CacheGets
                              /\ calls'[j].key = CheckedKey
                              /\ ~calls'[j].ok
    /\ SameProcess =>
          /\ \A k \in DOMAIN cache.Images :
                /\ k \in DOMAIN cache'.Images
                /\ \/ cache'.Images[k] = cache.Images[k]
                   \/ \E j \in NewCalls : /\ calls'[j].op = "SetImage"
                                          /\ calls'[j].key = k
          /\ \A k \in DOMAIN cache.Charts :
                /\ k \in DOMAIN cache'.Charts
                /\ \/ cache'.Charts[k] = cache.Charts[k]
                   \/ \E j \in NewCalls : /\ calls'[j].op = "SetChart"
                                          /\ calls'[j].key = k
    /\ (pc = "Save" /\ pc' = "Exit") =>
          /\ file'.Images = cache.Images
          /\ file'.Charts = cache.Charts

\* C10: Get on a key whose entry is older than the TTL answers not-found, and
\* Get never changes the cache: an entry, expired or not, stays in the
\* in-memory mapping until a Set for that key replaces it, and Save writes
\* the mapping as it is, expired entries included.
C10_LazyExpiry == [][C10_Step]_vars

\* C10 witness: an expired entry was asked for and answered not-found, the
\* lookup failed, and the entry is still in memory and in the file that Save
\* wrote.
C10_Witness ==
    /\ pc = "Exit"
    /\ ~cache.skipReads
    /\ \E j \in 1..(Len(calls) - 1) :
          /\ calls[j].op = "GetImage"
          /\ ~calls[j].ok
          /\ calls[j + 1].err.kind = "error"
          /\ calls[j].key \in DOMAIN cache.Images
          /\ now - cache.Images[calls[j].key].CheckedAt > cache.ttl
          /\ calls[j].key \in DOMAIN file.Images
          /\ file.Images[calls[j].key] = cache.Images[calls[j].key]

KeyAt(p) == IF IsImagePos(p) THEN ImageCacheKey(RefAt(p))
            ELSE ChartCacheKey(RefAt(p))
FileMapAt(p) == IF IsImagePos(p) THEN file.Images ELSE file.Charts
PrevEmitted == prev.results.Images \o prev.results.Charts
\* The second run has returned and has not yet saved: the file is the one the
\* first run left.
SecondRunReturned == run = 2 /\ Returned /\ ~cache.skipReads
\* When the second run started, the file held an entry no older than the TTL
\* for the key of every reference that is looked up.
WarmAtStart ==
    \A p \in 1..NumRefs :
        ~ShortCircuits(p) =>
            /\ KeyAt(p) \in DOMAIN FileMapAt(p)
            /\ prev.now - FileMapAt(p)[KeyAt(p)].CheckedAt <= cache.ttl
\* The same entries are still not older than the TTL when the second run
\* returns, hence at each of its lookups.
WarmThroughout ==
    \A p \in 1..NumRefs :
        ~ShortCircuits(p) =>
            /\ KeyAt(p) \in DOMAIN FileMapAt(p)
            /\ now - FileMapAt(p)[KeyAt(p)].CheckedAt <= cache.ttl
NoResolverCall == \A j \in 1..Len(calls) : calls[j].op \notin ResolverCalls

LastSet(op, key) ==
    LET sets == { j \in 1..Len(calls) :
                     calls[j].op = op /\ calls[j].key = key }
    IN  IF sets = {} THEN 0 ELSE CHOOSE j \in sets : \A k \in sets : k <= j
\* The second instance has answered a Get.
GetAnswered == pc = "c2" /\ results # NoResults /\ ~cache.skipReads

\* C11: Set, Save, Load on a fresh instance of the same file, Get: a key that
\* was set and whose entry is not older than the TTL is found with the latest
\* value and the tag list of its last Set; a key that was not set in that
\* mapping is not found.
C11_RoundTrip ==
    GetAnswered =>
        LET op == IF results.op = "GetImage" THEN "SetImage" ELSE "SetChart"
            j == LastSet(op, results.key)
        IN  IF j = 0 THEN ~results.out.ok
            ELSE (results.at - calls[j].at <= TTL) =>
                    /\ results.out.ok
                    /\ results.out.Latest = calls[j].latest
                    /\ results.out.AllTags = calls[j].tags

\* C11 witness: a key set twice in the first instance, read back later from
\* the second instance with the value and the tag list of the second Set.
C11_Witness ==
    /\ GetAnswered
    /\ results.op = "GetImage"
    /\ results.out.ok
    /\ results.out.AllTags # <<>>
    /\ results.at > 0
    /\ Len(calls) = 2
    /\ calls[1].op = "SetImage" /\ calls[2].op = "SetImage"
    /\ calls[1].key = results.key /\ calls[2].key = results.key
    /\ calls[1].latest # calls[2].latest

\* C12 as stated: after Load of a missing file there is no error and the
\* cache is empty; after Load of a malformed file there is an error and the
\* cache is empty, so that no Get of the run is answered from it.
C12_LoadLeavesCacheEmpty ==
    (run = 1 /\ pc \in {"Scan", "Images", "Charts", "Save"}) =>
        /\ (pc = "Scan" /\ file.kind = "missing") =>
              /\ err = NoError
              /\ cache.Images = EmptyMap /\ cache.Charts = EmptyMap
        /\ (pc = "Scan" /\ file.kind \in {"syntax", "type"}) =>
              /\ err # NoError
              /\ cache.Images = EmptyMap /\ cache.Charts = EmptyMap
        /\ file.kind \in {"missing", "syntax", "type"} =>
              \A j \in 1..Len(calls) :
                  calls[j].op \in CacheGets => ~calls[j].ok

Range(s) == { s[k] : k \in 1..Len(s) }
LatestReturned == output.fn = "findLatestTag"
\* the tags that pass the filter of a current tag that does not match the
\* version pattern, and of one that does
NoHyphenSurvivors ==
    { t \in Range(input.tags) : MatchString(t) /\ ~ContainsHyphen(t) }
SameStyleSurvivors ==
    { t \in Range(input.tags) :
        MatchString(t) /\ (HasVPrefix(t) = HasVPrefix(input.currentTag)) }
\* tag a is numerically not greater than tag b: major, minor, patch compared
\* left to right
NotGreater(a, b) ==
    LET ta == semverRegex(a)
        tb == semverRegex(b)
    IN  \/ ta[1] < tb[1]
        \/ ta[1] = tb[1] /\ ta[2] < tb[2]
        \/ ta[1] = tb[1] /\ ta[2] = tb[2] /\ ta[3] <= tb[3]

C14_SameStyleOrPinned ==
    (LatestReturned /\ MatchString(input.currentTag)) =>
        \/ /\ MatchString(output.latest)
           /\ HasVPrefix(output.latest) = HasVPrefix(input.currentTag)
        \/ /\ SameStyleSurvivors = {}
           /\ output.latest = input.currentTag

\* C14 amended: that holds for a non-empty tag list, where the result is one
\* of the tags that match the pattern with the current tag's v-prefix
\* presence, or the current tag when there is none; for the empty list the
\* result is the empty string, not the current tag.
C14_SameStyleNonEmpty ==
    (LatestReturned /\ MatchString(input.currentTag)) =>
        IF Len(input.tags) = 0 THEN output.latest = ""
        ELSE IF SameStyleSurvivors = {}
             THEN output.latest = input.currentTag
             ELSE output.latest \in SameStyleSurvivors

\* C14 witness: a v-prefixed current tag, a list that holds a greater tag
\* without the prefix, and a v-prefixed result.
C14_Witness ==
    /\ LatestReturned
    /\ HasVPrefix(input.currentTag)
    /\ MatchString(input.currentTag)
    /\ \E t \in Range(input.tags) :
          /\ MatchString(t)
          /\ ~HasVPrefix(t)
          /\ ~NotGreater(t, output.latest)
    /\ output.latest \in Range(input.tags)
    /\ HasVPrefix(output.latest)

\* C15: when the current tag does not match the version pattern and the list
\* is not empty, the result is a tag that matches the pattern and has no
\* hyphen and that no other such tag exceeds numerically; when no tag
\* qualifies it is the first tag of the list.
C15_GreatestOrFirst ==
    (LatestReturned /\ ~MatchString(input.currentTag)
                    /\ Len(input.tags) > 0) =>
        IF NoHyphenSurvivors = {}
        THEN output.latest = input.tags[1]
        ELSE /\ output.latest \in NoHyphenSurvivors
             /\ \A t \in NoHyphenSurvivors : NotGreater(t, output.latest)

\* C15 witness: the current tag "latest", a list with a hyphenated tag that
\* is numerically greater than the result, and a result that is greater
\* numerically but not as a string than another tag of the list.
C15_Witness ==
    /\ LatestReturned
    /\ input.currentTag = "latest"
    /\ \E t \in Range(input.tags) :
          MatchString(t) /\ ContainsHyphen(t) /\ ~NotGreater(t, "2.0")
    /\ "2.0" \in Range(input.tags)
    /\ output.latest = "10.0"

\* C16 as stated: the latest tag reported never carries a pre-release
\* suffix: no tag of the list that matches the version pattern and goes on
\* with a hyphen is ever returned.
C16_NoPreRelease ==
    (LatestReturned /\ output.latest \in Range(input.tags)) =>
        ~(MatchString(output.latest) /\ ContainsHyphen(output.latest))

ImageParsed == output.fn = "parseImageString"
Occurs(c, cs) == \E k \in 1..Len(cs) : cs[k] = c

\* C17: parseImageString returns nil exactly for a string that, with the
\* blanks around it removed, is empty, is "latest", starts with "/" or ".",
\* or holds neither "/" nor ":"; otherwise FullImage is the string without
\* the blanks around it and Skipped is set exactly when Repository holds
\* the excluded organization.
C17_ParseImageString ==
    ImageParsed =>
        LET t == TrimSpace(input.imageStr)
            rejected == \/ t = <<>>
                        \/ t = Str_latest
                        \/ (t # <<>> /\ t[1] \in {"/", "."})
                        \/ (~Occurs("/", t) /\ ~Occurs(":", t))
        IN  /\ output.img = Nil <=> rejected
            /\ output.img # Nil =>
                  /\ \E a \in 0..Len(input.imageStr) :
                        LET f == output.img.FullImage
                            str == input.imageStr
                        IN  /\ a + Len(f) <= Len(str)
                            /\ f = SubSeq(str, a + 1, a + Len(f))
                            /\ \A k \in 1..a : IsSpace(str[k])
                            /\ \A k \in (a + Len(f) + 1)..Len(str) :
                                  IsSpace(str[k])
                            /\ ~IsSpace(f[1]) /\ ~IsSpace(f[Len(f)])
                  /\ output.img.Skipped <=>
                        \E k \in 1..(Len(output.img.Repository)
                                      - Len(Str_thinkportgmbh) + 1) :
                            SubSeq(output.img.Repository, k,
                                   k + Len(Str_thinkportgmbh) - 1)
                              = Str_thinkportgmbh

\* C17 witness: a reference that names the excluded organization in its
\* registry host or in its tag only, written with blanks around it, is
\* parsed and not skipped.
C17_Witness ==
    /\ ImageParsed
    /\ output.img # Nil
    /\ Contains(output.img.FullImage, Str_thinkportgmbh)
    /\ ~output.img.Skipped
    /\ Len(output.img.FullImage) < Len(input.imageStr)

DockerfileParsed == output.fn = "parseDockerfile"
\* what parseDockerfile knows when it reaches line k
Before(k) == parseDockerfile(SubSeq(input.lines, 1, k - 1), input.path)
FromAt(k) == fromPattern(TrimSpace(input.lines[k]))
ResolvedAt(k) == resolveDockerfileVars(FromAt(k).imageRef, Before(k).args)
\* a FROM line whose resolved reference holds no "$", is not scratch and is
\* not a stage alias seen before
QualifyingFrom(k) ==
    /\ FromAt(k).ok
    /\ ~argPattern(TrimSpace(input.lines[k])).ok
    /\ ~Occurs("$", ResolvedAt(k))
    /\ ToLower(ResolvedAt(k)) # Str_scratch
    /\ ToLower(ResolvedAt(k)) \notin Before(k).aliases
ImagesOfLine(k) ==
    { j \in 1..Len(output.images) : output.images[j].Line = k }

\* C18 as stated: every FROM line whose resolved reference holds no "$", is
\* not scratch and is not a stage alias seen before yields exactly one image
\* with the number of that line; no other line yields an image.
C18_OneImagePerFromLine ==
    DockerfileParsed =>
        \A k \in 1..Len(input.lines) :
            IF QualifyingFrom(k)
            THEN Cardinality(ImagesOfLine(k)) = 1
            ELSE ImagesOfLine(k) = {}

ScanReturned == output.fn = "Scan" /\ output.returned
\* the places (file, position) where the scanned directory holds a
\* reference, and walk order on them
Places(names) ==
    { <<f, k>> \in (1..Len(input.files)) \X (1..2) :
        /\ input.files[f].name \in names
        /\ k <= Len(input.files[f].refs) }
Earlier(p, q) == p[1] < q[1] \/ (p[1] = q[1] /\ p[2] <= q[2])
RefOf(p) == input.files[p[1]].refs[p[2]]
ImagePlaces == Places({"values.yaml", "Dockerfile"})
ChartPlaces == Places({"Chart.yaml"})
ChartKeyOf(c) == <<c.Name, c.Version>>

\* C19: after Scan no two images have the same FullImage and no two charts
\* the same name and version; every reference found has an entry; and the
\* entry of a key carries the file and line, or the file and upstream, of the
\* first place in walk order where the key was found.
C19_FirstOccurrenceWins ==
    ScanReturned =>
        /\ \A a, b \in 1..Len(output.Images) :
              output.Images[a].FullImage = output.Images[b].FullImage
                  => a = b
        /\ \A a, b \in 1..Len(output.Charts) :
              ChartKeyOf(output.Charts[a]) = ChartKeyOf(output.Charts[b])
                  => a = b
        /\ \A p \in ImagePlaces :
              \E a \in 1..Len(output.Images) :
                  LET first == CHOOSE q \in ImagePlaces :
                                 /\ RefOf(q).FullImage = RefOf(p).FullImage
                                 /\ \A r \in ImagePlaces :
                                       RefOf(r).FullImage = RefOf(p).FullImage
                                           => Earlier(q, r)
                  IN  /\ output.Images[a].FullImage = RefOf(p).FullImage
                      /\ output.Images[a].Path = input.files[first[1]].path
                      /\ output.Images[a].Line = RefOf(first).Line
        /\ \A p \in ChartPlaces :
              \E a \in 1..Len(output.Charts) :
                  LET first == CHOOSE q \in ChartPlaces :
                                 /\ ChartKeyOf(RefOf(q)) = ChartKeyOf(RefOf(p))
                                 /\ \A r \in ChartPlaces :
                                       ChartKeyOf(RefOf(r))
                                         = ChartKeyOf(RefOf(p))
                                           => Earlier(q, r)
                  IN  /\ ChartKeyOf(output.Charts[a]) = ChartKeyOf(RefOf(p))
                      /\ output.Charts[a].Path = input.files[first[1]].path
                      /\ output.Charts[a].Upstream = RefOf(first).Upstream
        /\ Len(output.Images) <= Cardinality(ImagePlaces)
        /\ Len(output.Charts) <= Cardinality(ChartPlaces)

\* C19 witness: the same image in a values.yaml and, on another line, in the
\* Dockerfile visited after it, and the same chart with different upstreams
\* in two Chart.yaml files; one entry each, from the first file.
C19_Witness ==
    /\ ScanReturned
    /\ Len(output.Images) = 1
    /\ Len(output.Charts) = 1
    /\ \E p, q \in ImagePlaces :
          /\ p[1] < q[1]
          /\ RefOf(p).FullImage = RefOf(q).FullImage
          /\ RefOf(p).Line # RefOf(q).Line
          /\ output.Images[1].Line = RefOf(p).Line
          /\ output.Images[1].Path = input.files[p[1]].path
    /\ \E p, q \in ChartPlaces :
          /\ p[1] < q[1]
          /\ ChartKeyOf(RefOf(p)) = ChartKeyOf(RefOf(q))
          /\ RefOf(p).Upstream # RefOf(q).Upstream
          /\ output.Charts[1].Upstream = RefOf(p).Upstream

\* C20: GetLatestTag called for a registry the README lists as supported
\* issues a tag-list call and, when the registry answers 200, returns the
\* latest tag of the answer without an error.
C20_SupportedRegistriesChecked ==
    (output.fn = "GetLatestTag" /\ input.registry \in ReadmeRegistries) =>
        /\ output.tagInfo.http = 1
        /\ input.resp.status = 200 =>
              /\ output.tagInfo.err = NoError
              /\ output.tagInfo.Latest
                   = findLatestTag(input.resp.tags, input.currentTag)

\* C21: when some tag passes the filter, findLatestTag returns a tag that
\* passed it and that no other such tag exceeds in (major, minor, patch), and
\* among the tags of that greatest version the one listed first, with or
\* without a hyphenated suffix.
C21_GreatestListedFirst ==
    LatestReturned =>
        \E s \in {SortedTags(input.tags, input.currentTag)} :
            Len(s) > 0 =>
                \E j \in 1..Len(s) :
                    /\ output.latest = s[j]
                    /\ \A k \in 1..Len(s) : NotGreater(s[k], s[j])
                    /\ \A k \in 1..(j - 1) : ~NotGreater(s[j], s[k])

\* what is left of the reference once the registry host is stripped
Remainder ==
    IF HasPrefix(output.img.FullImage, output.img.Registry \o <<"/">>)
    THEN SubSeq(output.img.FullImage, Len(output.img.Registry) + 2,
                Len(output.img.FullImage))
    ELSE output.img.FullImage
\* strings.LastIndex, counted from 1; 0 when c does not occur
LastIndex(cs, c) ==
    IF \E k \in 1..Len(cs) : cs[k] = c
    THEN CHOOSE k \in 1..Len(cs) :
             cs[k] = c /\ \A j \in (k + 1)..Len(cs) : cs[j] # c
    ELSE 0

\* C22: the repository of a parsed reference is the remainder before its
\* last ":" and the tag is the text after it; a remainder without ":" is
\* the repository, with the tag "latest".
C22_SplitAtLastColon ==
    (ImageParsed /\ ~output.img.nil) =>
        \E at \in {LastIndex(Remainder, ":")} :
            IF at = 0
            THEN /\ output.img.Repository = Remainder
                 /\ output.img.Tag = Str_latest
            ELSE /\ output.img.Repository = SubSeq(Remainder, 1, at - 1)
                 /\ output.img.Tag = SubSeq(Remainder, at + 1, Len(Remainder))

\* the segment before the first "/" of the reference, and whether the
\* reference names a registry host by it
FirstSegment ==
    SubSeq(output.img.FullImage, 1, Index(output.img.FullImage, <<"/">>) - 1)
NamesHost ==
    /\ Occurs("/", output.img.FullImage)
    /\ Occurs(".", FirstSegment) \/ Occurs(":", FirstSegment)
\* a repository and a tag are what parsing rest as repository[:tag] gives
ParsedAs(rest, repository, tag) ==
    \/ rest = repository \o <<":">> \o tag
    \/ ~Occurs(":", rest) /\ rest = repository /\ tag = Str_latest

\* C23: a parsed reference that holds "/" and whose segment before the first
\* "/" holds "." or ":" has that segment as its registry host and the text
\* after that "/" parsed as repository[:tag]; any other parsed reference has
\* the registry host "docker.io" and is parsed as repository[:tag] as a whole.
C23_RegistryHost ==
    (ImageParsed /\ ~output.img.nil) =>
        IF NamesHost
        THEN /\ output.img.Registry = FirstSegment
             /\ ParsedAs(SubSeq(output.img.FullImage, Len(FirstSegment) + 2,
                                Len(output.img.FullImage)),
                         output.img.Repository, output.img.Tag)
        ELSE /\ output.img.Registry = Str_docker_io
             /\ ParsedAs(output.img.FullImage, output.img.Repository,
                         output.img.Tag)

\* C23 witness: a host with a port and no "." is taken for the registry host
\* and removed from the repository.
C23_Witness ==
    /\ ImageParsed
    /\ ~output.img.nil
    /\ NamesHost
    /\ ~Occurs(".", FirstSegment)
    /\ output.img.Registry = FirstSegment
    /\ output.img.Repository = <<"n", "g", "i", "n", "x">>
    /\ output.img.Tag = <<"1", ".", "0">>

\* the ARG lines with a non-empty default that come before line k, and for
\* each name declared by one of them the default of the most recent one
ArgAt(j) == argPattern(TrimSpace(input.lines[j]))
DefaultAt(j) == TrimQuotes(TrimSpace(ArgAt(j).value))
DeclaredBefore(k) ==
    { j \in 1..(k - 1) : ArgAt(j).ok /\ DefaultAt(j) # <<>> }
DefaultsBefore(k) ==
    [name \in { ArgAt(j).name : j \in DeclaredBefore(k) } |->
        DefaultAt(CHOOSE j \in DeclaredBefore(k) :
                      /\ ArgAt(j).name = name
                      /\ \A m \in DeclaredBefore(k) :
                            ArgAt(m).name = name => m <= j)]
\* the reference of the FROM line k with every variable replaced by the most
\* recent non-empty default declared before the line, else by its inline
\* default, else left as it is
SubstitutedAt(k) ==
    resolveDockerfileVars(FromAt(k).imageRef, DefaultsBefore(k))

\* C24: the image of a FROM line is its reference with every variable
\* replaced by the most recent non-empty default among the ARG lines before
\* it, else by the inline default; a line whose reference keeps a variable
\* yields no image.  ARG lines without default and ARG lines after the FROM
\* line do not count.
C24_MostRecentDefaultBefore ==
    DockerfileParsed =>
        \A k \in 1..Len(input.lines) :
            (FromAt(k).ok /\ ~ArgAt(k).ok) =>
                /\ \A j \in ImagesOfLine(k) :
                      output.images[j].FullImage = SubstitutedAt(k)
                /\ Occurs("$", SubstitutedAt(k)) => ImagesOfLine(k) = {}
                /\ (~Occurs("$", SubstitutedAt(k))
                    /\ Occurs(":", SubstitutedAt(k)))
                      => Cardinality(ImagesOfLine(k)) = 1

\* C24 witness: two defaults for the same name, then the FROM line that uses
\* the name: the image is the second default.
C24_Witness ==
    /\ DockerfileParsed
    /\ Len(input.lines) = 3
    /\ DeclaredBefore(3) = {1, 2}
    /\ DefaultAt(1) # DefaultAt(2)
    /\ FromAt(3).ok
    /\ Occurs("$", FromAt(3).imageRef)
    /\ Len(output.images) = 1
    /\ output.images[1].FullImage = DefaultAt(2)
    /\ output.images[1].Line = 3

ChartLookedUp == output.fn = "GetChartVersion"
\* the version the search answer gives for the chart: that of the first
\* package of that name from the mapped repository, else that of the first
\* package of that name, else none
SearchVersion ==
    LET ps == input.resp.packages
        repo == IF input.upstream = "trinodb" THEN "trino"
                ELSE input.upstream
        best == { k \in 1..Len(ps) :
                    ps[k].Name = input.chartName /\ ps[k].Repository = repo }
        named == { k \in 1..Len(ps) : ps[k].Name = input.chartName }
        pick == IF best # {} THEN best ELSE named
    IN  IF pick = {} THEN "none"
        ELSE ps[CHOOSE k \in pick : \A j \in pick : k <= j].Version
NotFoundError ==
    Errorf("chart " \o input.chartName \o " not found on ArtifactHub")
\* what the claim says of the direct call, for an answer of 200 or 429
DirectCallEnds ==
    /\ output.versionInfo.http >= 1
    /\ input.resp.direct = 200 =>
          /\ output.versionInfo.http = 1
          /\ output.versionInfo.err = NoError
          /\ output.versionInfo.LatestVersion = input.resp.version
    /\ input.resp.direct = 429 =>
          /\ output.versionInfo.http = 1
          /\ output.versionInfo.err = ErrRateLimit
\* the result of a search call is the package the search answer gives, or
\* the not-found error
SearchResultGiven ==
    IF SearchVersion = "none"
    THEN output.versionInfo.err = NotFoundError
    ELSE /\ output.versionInfo.err = NoError
         /\ output.versionInfo.LatestVersion = SearchVersion

Replaced(before, after, key, entry) ==
    /\ DOMAIN after = DOMAIN before \cup {key}
    /\ after[key] = entry
    /\ \A k \in DOMAIN before \ {key} : after[k] = before[k]
\* the Set call a step has just logged
SetLogged == calls'[Len(calls')]

\* C26: a step that is a Set call leaves the entry of its key with the
\* latest value, the time and the tag list of that call and nothing of the
\* entry it replaces, and changes no other key of its mapping and no key of
\* the other mapping.
C26_Step ==
    (pc = "c1" /\ Len(calls') = Len(calls) + 1) =>
        IF SetLogged.op = "SetImage"
        THEN /\ Replaced(cache.Images, cache'.Images, SetLogged.key,
                         [Latest |-> SetLogged.latest, CheckedAt |-> now,
                          AllTags |-> SetLogged.tags])
             /\ cache'.Charts = cache.Charts
        ELSE /\ Replaced(cache.Charts, cache'.Charts, SetLogged.key,
                         [Latest |-> SetLogged.latest, CheckedAt |-> now,
                          AllTags |-> <<>>])
             /\ cache'.Images = cache.Images
C26_SetReplacesEntry == [][C26_Step]_vars

\* C26 witness: an image key set with a tag list and set again, later,
\* without one: the entry has the latest value and the time of the second
\* call and no tag list.
C26_Witness ==
    /\ pc = "c1"
    /\ Len(calls) = 2
    /\ calls[1].op = "SetImage" /\ calls[1].tags # <<>>
    /\ calls[2].op = "SetImage" /\ calls[2].key = calls[1].key
    /\ calls[2].tags = <<>>
    /\ calls[2].latest # calls[1].latest
    /\ calls[2].at > calls[1].at
    /\ cache.Images[calls[1].key] =
          [Latest |-> calls[2].latest, CheckedAt |-> calls[2].at,
           AllTags |-> <<>>]

\* ------------------------------------------------------------------------
\* Properties of one CheckAll run: the latest tag and the cache
\* ------------------------------------------------------------------------
ImagePositions == 1..Len(results.Images)
SetsImageAt(p) == \E j \in CallsAt(p) : calls[j].op = "SetImage"
HitsImageAt(p) ==
    \E j \in CallsAt(p) : calls[j].op = "GetImage" /\ calls[j].ok
\* reference p fetched the tag list of its key and wrote the entry that the
\* cache still holds, and the later reference q of the same key was answered
\* from it
AnsweredFromLookupOf(p, q) ==
    /\ p < q
    /\ ImageCacheKey(scan.Images[p]) = ImageCacheKey(scan.Images[q])
    /\ SetsImageAt(p)
    /\ HitsImageAt(q)
    /\ \A r \in ImagePositions : r > p => ~SetsImageAt(r)

\* C27: the latest tag reported for an image reference that is answered from
\* the lookup an earlier reference of the same registry/repository made in
\* this run is findLatestTag of the fetched tag list and the reference's own
\* pinned tag, whatever the pinned tag of the earlier reference.
C27_LatestFromOwnTag ==
    \A p \in ImagePositions : \A q \in ImagePositions :
        AnsweredFromLookupOf(p, q) =>
            results.Images[q].Latest =
                findLatestTag(cache.Images[ImageCacheKey(scan.Images[q])].AllTags,
                              results.Images[q].Current)

\* a is a higher version than b under the (major, minor, patch) comparison
HigherVersion(a, b) ==
    /\ MatchString(a)
    /\ MatchString(b)
    /\ compareSemver(a, b) > 0

\* C28: an image result with status UpdateAvailable that comes from a lookup
\* of its own (not from the cache) and whose pinned tag is a version has a
\* latest tag that is a higher version than the pinned tag.
C28_UpdateIsHigherVersion ==
    \A p \in ImagePositions :
        (/\ SetsImageAt(p)
         /\ results.Images[p].Status = StatusUpdateAvailable
         /\ MatchString(results.Images[p].Current)) =>
            HigherVersion(results.Images[p].Latest, results.Images[p].Current)

\* The time at which the run in progress started (SpecTwice: time passes
\* between two runs and during a lookup).
RunStart == prev.now
\* the calls made so far in this run for the key of the reference that is
\* being checked
CallsOfCheckedKey == { j \in 1..Len(calls) : calls[j].key = CheckedKey }
SucceededBefore ==
    \E j \in CallsOfCheckedKey : calls[j].op \in ResolverCalls /\ calls[j].ok
LastOfCheckedKey ==
    CHOOSE j \in CallsOfCheckedKey : \A k \in CallsOfCheckedKey : k <= j
FailedLast ==
    /\ CallsOfCheckedKey # {}
    /\ calls[LastOfCheckedKey].op \in ResolverCalls
    /\ calls[LastOfCheckedKey].err.kind = "error"

C29_Step ==
    (/\ ChecksReference
     /\ ~ShortCircuits(CheckedPos)
     /\ ~cache.skipReads) =>
        /\ (SucceededBefore /\ now - RunStart <= cache.ttl) =>
              /\ Len(calls') = Len(calls) + 1
              /\ calls'[Len(calls')].op \in CacheGets
              /\ calls'[Len(calls')].key = CheckedKey
              /\ calls'[Len(calls')].ok
              /\ cache' = cache
        /\ FailedLast =>
              \E j \in NewCalls : /\ calls'[j].op \in ResolverCalls
                                  /\ calls'[j].key = CheckedKey

\* C29: in a run with skipReads disabled that has lasted no longer than the
\* TTL, a reference whose key was looked up successfully earlier in the run
\* is answered by one cache hit, with no Resolver call and no write, so that
\* no key has two successful lookups; a reference whose key was last looked
\* up with a generic failure is looked up again.
C29_OneLookupPerKey == [][C29_Step]_vars

\* C29 witness: two references of one key, the first looked up and stored,
\* the second answered by the cache alone.
C29_Witness ==
    /\ Returned
    /\ ~cache.skipReads
    /\ now - RunStart <= cache.ttl
    /\ Len(scan.Images) = 2
    /\ ImageCacheKey(scan.Images[1]) = ImageCacheKey(scan.Images[2])
    /\ \E j \in CallsAt(1) : calls[j].op = "GetLatestTag" /\ calls[j].ok
    /\ \A j \in CallsAt(2) : calls[j].op = "GetImage" /\ calls[j].ok
    /\ CallsAt(2) # {}

\* A failed lookup followed by a second lookup of the same key.
C29_RetryWitness ==
    /\ Returned
    /\ ~cache.skipReads
    /\ Len(scan.Images) = 2
    /\ \E j \in CallsAt(1) : calls[j].err.kind = "error"
    /\ \E j \in CallsAt(2) : /\ calls[j].op = "GetLatestTag"
                              /\ calls[j].key = ImageCacheKey(scan.Images[1])

\* A step of CheckAll, from its first reference to its return.
InCheckAll == pc \in {"Images", "Charts"}
\* The step checks a reference with three calls: a Get that misses, a
\* Resolver call that succeeds and the Set of the key.
LooksUpAndStores ==
    /\ ChecksReference
    /\ ~ShortCircuits(CheckedPos)
    /\ Len(calls') = Len(calls) + 3
    /\ calls'[Len(calls) + 2].op \in ResolverCalls
    /\ calls'[Len(calls) + 2].ok
    /\ calls'[Len(calls) + 2].key = CheckedKey
    /\ calls'[Len(calls) + 3].op \in CacheSets
    /\ calls'[Len(calls) + 3].key = CheckedKey
\* the entry of key in mapping m holds the latest value given to the
\* reference and the time after the call
StoresAnswer(m, key, latest) ==
    /\ key \in DOMAIN m
    /\ m[key].Latest = latest
    /\ m[key].CheckedAt = now'
StoresImageAnswer ==
    /\ pc = "Images"
    /\ cache'.Charts = cache.Charts
    /\ Replaced(cache.Images, cache'.Images, CheckedKey,
                cache'.Images[CheckedKey])
    /\ StoresAnswer(cache'.Images, CheckedKey, results'.Images[i].Latest)
    /\ results'.Images[i].Latest =
          findLatestTag(cache'.Images[CheckedKey].AllTags, scan.Images[i].Tag)
StoresChartAnswer ==
    /\ pc = "Charts"
    /\ cache'.Images = cache.Images
    /\ Replaced(cache.Charts, cache'.Charts, CheckedKey,
                cache'.Charts[CheckedKey])
    /\ StoresAnswer(cache'.Charts, CheckedKey, results'.Charts[i].Latest)
SetKeys(op) == { calls[j].key : j \in { k \in 1..Len(calls) : calls[k].op = op } }

C30_Step ==
    /\ InCheckAll =>
          /\ cache'.ttl = cache.ttl
          /\ cache'.skipReads = cache.skipReads
          /\ \/ cache' = cache
             \/ /\ LooksUpAndStores
                /\ StoresImageAnswer \/ StoresChartAnswer
    /\ (pc = "Save" /\ pc' = "Exit") =>
          /\ \A k \in SetKeys("SetImage") :
                k \in DOMAIN cache.Images /\ k \in DOMAIN file'.Images
          /\ \A k \in SetKeys("SetChart") :
                k \in DOMAIN cache.Charts /\ k \in DOMAIN file'.Charts

\* C30: a step of CheckAll changes the cache only when it checks a reference
\* whose Resolver call succeeds, and then only the entry of that reference's
\* key in its own mapping, which receives the answer of the call; every other
\* step (skipped reference, cache hit, failed lookup, reference emitted after
\* the halt) leaves both mappings as they are, and every key written during
\* the run is in the cache and in the file when main saves.
C30_CacheWrittenOnSuccessOnly == [][C30_Step]_vars

\* C30 witness: an image entry was written, a later lookup hit the rate
\* limit, and the saved file holds the entry.
C30_Witness ==
    /\ pc = "Exit"
    /\ rateLimitHit
    /\ \E j \in 1..Len(calls) : \E k \in 1..Len(calls) :
          /\ j < k
          /\ calls[j].op = "SetImage"
          /\ calls[k].err = ErrRateLimit
          /\ calls[j].key \in DOMAIN file.Images
          /\ file.Images[calls[j].key] = cache.Images[calls[j].key]

====
